---- MODULE Spec2Model ----
(***************************************************************************)
(* A model of the GPA "Easy Output" exporter (src/__init__.py).            *)
(*                                                                         *)
(* The module holds several specifications over one set of variables:      *)
(*   SpecScan   the line loop of parse_texture_bindings_from_dxbc          *)
(*   SpecTrace  find_ps_set_shader_resources_before_event                  *)
(*   SpecMesh   the index window / remap / face emission of                *)
(*              export_mesh_from_buffers                                   *)
(*   SpecRun    run(): event selection and the per-event export steps      *)
(*   SpecEvent  run() on one-event frames with every binding shape         *)
(* Each specification leaves the variables of the other parts idle.        *)
(***************************************************************************)
EXTENDS Integers, Sequences, FiniteSets, TLC

VARIABLES
    \* ---- parse_texture_bindings_from_dxbc (the scanner's loop state)
    dxbc_lines,             \* the lines consumed so far (each a token sequence)
    in_bindings_section,    \* line 1499
    header_found,           \* line 1500
    textures,               \* line 1486, the list the function returns
    \* ---- the captured frame and find_ps_set_shader_resources_before_event
    all_calls,              \* line 2198, the call trace of the frame
    target_call,            \* the event the trace correlation is asked about
    ps_set_srv_calls,       \* line 2092, the list the function returns
    trace_pc,               \* "idle" | "call" | "returned"
    \* ---- export_mesh_from_buffers (index window, remap, face emission)
    mesh_in,                \* the decoded index buffer, the draw parameters
                            \* and the vertex buffer's record count
    mesh_out,               \* the function's locals when it returns
    mesh_pc,                \* "idle" | "call" | "returned"
    \* ---- run: parameters
    min_call,               \* line 2182
    max_call,               \* line 2183
    enable_skinning,        \* line 2184
    \* ---- run: the event loop
    run_pc,                 \* the statement run is about to execute
    filtered_calls,         \* lines 2201-2213, the selected events
    idx,                    \* line 2251, 0-based position in filtered_calls
    cursor,                 \* 0-based position in the resource loop under way
    \* ---- run: the locals of one event
    bindings,               \* line 2281
    dxbc_texture_map,       \* line 2289
    resource_id_to_dxbc_name, \* line 2320
    srv_textures_view0,     \* line 2342
    other_inputs,           \* line 2343
    ibv_resource,           \* line 2284
    vbv_resources,          \* line 2285
    cbv_resources,          \* line 2286
    event_data,             \* line 2270
    \* ---- run: results
    events,                 \* output_data["events"], line 2243
    raise_site,             \* the statement whose exception left run, or ""
    \* ---- history of the event under way
    steps,                  \* the export steps carried out, in order
    failed,                 \* the steps that failed
    mesh_paths,             \* the mesh paths tried, in order, each with
                            \* whether it returned a file
    total_meshes,           \* line 2248
    \* ---- the DDS encoder: one call of get_dxgi_format, save_as_dds or
    \* flip_image_vertical
    tex_format,             \* the format identifier, a sequence of characters
    width,                  \* lines 207, 256
    height,                 \* lines 207, 256
    raw_data,               \* lines 207, 256: a sequence of bytes
    dds_pc,                 \* the function called, or how far the call got
    dds_out,                \* what the call returned or wrote
    \* ---- skinning: one call of parse_bone_weights_data, apply_skinning
    \* or skin_position
    skin_args,              \* the arguments of the call
    skin_pc,                \* the function called, or how far the call got
    skin_out,               \* what the call returned
    \* ---- one call of another function of the file on its own
    fn_args,                \* the arguments of the call
    fn_pc,                  \* the function called, or how far the call got
    fn_out                  \* what the call returned

scanVars == <<dxbc_lines, in_bindings_section, header_found, textures>>

traceVars == <<target_call, ps_set_srv_calls, trace_pc>>

meshVars == <<mesh_in, mesh_out, mesh_pc>>

runParams == <<min_call, max_call, enable_skinning>>

loopVars == <<run_pc, filtered_calls, idx, cursor>>

nameVars == <<dxbc_texture_map, resource_id_to_dxbc_name>>

classVars == <<srv_textures_view0, other_inputs>>

meshInputVars == <<ibv_resource, vbv_resources, cbv_resources>>

localVars == <<bindings, nameVars, classVars, meshInputVars, event_data>>

histVars == <<steps, failed>>

meshLogVars == <<mesh_paths, total_meshes>>

runVars == <<runParams, loopVars, localVars, events, raise_site, histVars, meshLogVars>>

ddsVars == <<tex_format, width, height, raw_data, dds_pc, dds_out>>

skinVars == <<skin_args, skin_pc, skin_out>>

fnVars == <<fn_args, fn_pc, fn_out>>

vars == <<dxbc_lines, in_bindings_section, header_found, textures,
          all_calls, target_call, ps_set_srv_calls, trace_pc,
          mesh_in, mesh_out, mesh_pc, runVars, ddsVars, skinVars, fnVars>>

(***************************************************************************)
(* Generic helpers                                                         *)
(***************************************************************************)
Range(s) == {s[i] : i \in DOMAIN s}

SeqsUpTo(S, n) == UNION {[1..k -> S] : k \in 0..n}

Min2(a, b) == IF a <= b THEN a ELSE b

Max2(a, b) == IF a >= b THEN a ELSE b

(***************************************************************************)
(* Shader-binding resolver, pass (a): the reflection scan.                 *)
(*                                                                         *)
(* A line is modelled after line.strip() as the sequence of its            *)
(* whitespace-separated tokens; the comment marker "//" is a token of its  *)
(* own.  Substring tests of the code become tests on (adjacent) tokens.    *)
(***************************************************************************)
L_RB        == <<"//", "Resource", "Bindings:">>
L_HDR       == <<"//", "Name", "Type", "Format", "Dim", "HLSL", "Bind", "Count">>
L_HDR_SHORT == <<"//", "Name", "Type", "Format", "Dim", "Bind", "Count">>
L_SEP       == <<"//", "---">>
L_TEX0      == <<"//", "tBaseMap", "texture", "float4", "2d", "t0", "1">>
L_TEX1      == <<"//", "tNormalMap", "texture", "float4", "2d", "t1", "1">>
L_SAMP      == <<"//", "sLinear", "sampler", "NA", "NA", "s0", "1">>
L_CB        == <<"//", "cbPerFrame", "cbuffer", "NA", "NA", "cb0", "1">>
L_UAV       == <<"//", "uOut", "UAV", "float4", "2d", "u0", "1">>
L_BARE      == <<"//">>
L_EMPTY     == <<>>
L_CODE      == <<"ps_5_0">>

LineVocabulary ==
    {L_RB, L_HDR, L_HDR_SHORT, L_SEP, L_TEX0, L_TEX1, L_SAMP, L_CB, L_UAV,
     L_BARE, L_EMPTY, L_CODE}

MaxLines == 5

\* "Resource Bindings:" in line
HasResourceBindings(line) ==
    \E i \in 1..(Len(line) - 1) : line[i] = "Resource" /\ line[i + 1] = "Bindings:"

\* "Name" in line and "HLSL Bind" in line
IsHeaderLine(line) ==
    /\ \E i \in 1..Len(line) : line[i] = "Name"
    /\ \E i \in 1..(Len(line) - 1) : line[i] = "HLSL" /\ line[i + 1] = "Bind"

\* "// ---" in line
IsSeparatorLine(line) ==
    \E i \in 1..(Len(line) - 1) : line[i] = "//" /\ line[i + 1] = "---"

\* line.startswith("//")
StartsWithComment(line) == Len(line) > 0 /\ line[1] = "//"

ResourceRowTypes == {"texture", "sampler", "cbuffer", "UAV"}

\* tokens that begin with a decimal digit, and the integer of their digits
CountValue == [x \in {"1", "2"} |-> IF x = "1" THEN 1 ELSE 2]

\* re.match(r'(\S+)\s+(texture|sampler|cbuffer|UAV)\s+(\S+)\s+(\S+)\s+(\S+)\s+(\d+)', content)
\* where content = line[2:].strip()
RowMatches(line) ==
    /\ Len(line) >= 7
    /\ line[3] \in ResourceRowTypes
    /\ line[7] \in DOMAIN CountValue

TextureInfo(line, line_num) ==
    [name |-> line[2], type |-> line[3], format |-> line[4], dim |-> line[5],
     slot |-> line[6], count |-> CountValue[line[7]], line_number |-> line_num]

\* One iteration of the loop at lines 1503-1557 on the scanner state
\* st = [in_bindings_section, header_found, textures]; line_num is 1-based.
ScanLineNoTypeFilter(st, line, line_num) ==
    IF HasResourceBindings(line)
    THEN [st EXCEPT !.in_bindings_section = TRUE]
    ELSE IF st.in_bindings_section /\ IsHeaderLine(line)
    THEN [st EXCEPT !.header_found = TRUE]
    ELSE IF st.in_bindings_section /\ IsSeparatorLine(line)
    THEN st
    ELSE IF st.in_bindings_section /\ st.header_found
    THEN IF line = <<>> \/ ~StartsWithComment(line)
         THEN [st EXCEPT !.in_bindings_section = FALSE]
         ELSE IF line = <<"//">>
         THEN [st EXCEPT !.in_bindings_section = FALSE]
         ELSE IF RowMatches(line)
         THEN [st EXCEPT !.textures = Append(@, TextureInfo(line, line_num))]
         ELSE st
    ELSE st

ScanLine(st, line, line_num) ==
    IF HasResourceBindings(line)
    THEN [st EXCEPT !.in_bindings_section = TRUE]
    ELSE IF st.in_bindings_section /\ IsHeaderLine(line)
    THEN [st EXCEPT !.header_found = TRUE]
    ELSE IF st.in_bindings_section /\ IsSeparatorLine(line)
    THEN st
    ELSE IF st.in_bindings_section /\ st.header_found
    THEN IF line = <<>> \/ ~StartsWithComment(line)
         THEN [st EXCEPT !.in_bindings_section = FALSE]
         ELSE IF line = <<"//">>
         THEN [st EXCEPT !.in_bindings_section = FALSE]
         ELSE IF RowMatches(line) /\ line[3] = "texture"
         THEN [st EXCEPT !.textures = Append(@, TextureInfo(line, line_num))]
         ELSE st
    ELSE st

\* slot.startswith("t") and int(slot[1:]) succeeds: the slot tokens "t<N>"
SlotIndex == [x \in {"t0", "t1"} |-> IF x = "t0" THEN 0 ELSE 1]

\* run, lines 2306-2314: the slot_index -> name map built from the scan result
RECURSIVE DxbcTextureMap(_)
DxbcTextureMap(texs) ==
    IF texs = <<>> THEN <<>>
    ELSE LET n    == Len(texs)
             prev == DxbcTextureMap(SubSeq(texs, 1, n - 1))
             tex  == texs[n]
         IN  IF tex.slot \in DOMAIN SlotIndex /\ tex.name /= ""
             THEN [s \in (DOMAIN prev) \cup {SlotIndex[tex.slot]} |->
                     IF s = SlotIndex[tex.slot] THEN tex.name ELSE prev[s]]
             ELSE prev

ScanInit ==
    /\ dxbc_lines = <<>>
    /\ in_bindings_section = FALSE
    /\ header_found = FALSE
    /\ textures = <<>>

\* the loop body applied to the next line of the text
ScanNextLine ==
    /\ Len(dxbc_lines) < MaxLines
    /\ \E line \in LineVocabulary :
         LET st == ScanLine([in_bindings_section |-> in_bindings_section,
                             header_found |-> header_found,
                             textures |-> textures],
                            line, Len(dxbc_lines) + 1)
         IN  /\ dxbc_lines' = Append(dxbc_lines, line)
             /\ in_bindings_section' = st.in_bindings_section
             /\ header_found' = st.header_found
             /\ textures' = st.textures

(***************************************************************************)
(* Claims about the reflection scan                                        *)
(***************************************************************************)
\* the block of the function's docstring, under its "Resource Bindings:" line
ExampleBlock == <<L_RB, L_HDR, L_SEP, L_TEX0>>

\* the three lines as the specification's test property writes them
SpecExampleBlock == <<L_HDR_SHORT, L_SEP, L_TEX0>>

TBaseMapOnly == [s \in {0} |-> "tBaseMap"]

OnlyTBaseMapRetained ==
    /\ Len(textures) = 1
    /\ textures[1].name = "tBaseMap"
    /\ textures[1].slot = "t0"
    /\ textures[1].type = "texture"
    /\ DxbcTextureMap(textures) = TBaseMapOnly

\* C3 as stated: the three-line block (no "Resource Bindings:" line, header
\* without "HLSL Bind") scans to exactly the binding t0 -> "tBaseMap", and a
\* further sampler row adds no binding.
C3_SpecExampleYieldsBinding ==
    /\ dxbc_lines = SpecExampleBlock => DxbcTextureMap(textures) = TBaseMapOnly
    /\ dxbc_lines = SpecExampleBlock \o <<L_SAMP>>
          => DxbcTextureMap(textures) = TBaseMapOnly

\* C3 (amended): the block preceded by a "Resource Bindings:" line and headed
\* by the line "// Name Type Format Dim HLSL Bind Count" scans to exactly the
\* binding t0 -> "tBaseMap"; a further sampler row adds no binding; the
\* three-line block without those two marks yields no binding at all.
C3_ExampleBlockYieldsBinding ==
    /\ dxbc_lines = ExampleBlock => OnlyTBaseMapRetained
    /\ dxbc_lines = ExampleBlock \o <<L_SAMP>> => OnlyTBaseMapRetained
    /\ dxbc_lines = SpecExampleBlock => DxbcTextureMap(textures) = <<>>

C3_Witness ==
    /\ dxbc_lines = ExampleBlock \o <<L_SAMP>>
    /\ DxbcTextureMap(textures) = TBaseMapOnly

IsBlockEnd(line) == line = <<>> \/ ~StartsWithComment(line) \/ line = <<"//">>

IsTextureRow(line) ==
    StartsWithComment(line) /\ RowMatches(line) /\ line[3] = "texture"

\* line n lies in a block: a "Resource Bindings:" line, then a header line,
\* and no block end between that header and n
InOpenBlock(n) ==
    \E r \in 1..(n - 1) : \E h \in (r + 1)..(n - 1) :
        /\ HasResourceBindings(dxbc_lines[r])
        /\ IsHeaderLine(dxbc_lines[h])
        /\ \A e \in (h + 1)..(n - 1) : ~IsBlockEnd(dxbc_lines[e])

\* C4: every retained row is a texture row that follows a "Resource
\* Bindings:" line and then a header line and precedes the first block end
\* (empty, non-comment or bare "//" line) after that header.
C4_RetainedOnlyInsideBlock ==
    \A k \in 1..Len(textures) :
        LET n == textures[k].line_number
        IN  /\ n \in 1..Len(dxbc_lines)
            /\ IsTextureRow(dxbc_lines[n])
            /\ InOpenBlock(n)

\* the "Resource Bindings:" lines before line n
BindingsLinesBefore(n) == {r \in 1..(n - 1) : HasResourceBindings(dxbc_lines[r])}

\* a block has ended before line r
BlockEndedBefore(r) ==
    \E e \in 1..(r - 1) : InOpenBlock(e) /\ IsBlockEnd(dxbc_lines[e])

\* C28: once a block has ended, a row is retained only if the latest
\* "Resource Bindings:" line before it, when it follows that end, is itself
\* followed by a header line before the row.
C28_LaterPartNeedsItsOwnHeader ==
    \A k \in 1..Len(textures) :
        LET n == textures[k].line_number
            r == CHOOSE x \in BindingsLinesBefore(n) :
                    \A y \in BindingsLinesBefore(n) : y <= x
        IN  (BindingsLinesBefore(n) /= {} /\ BlockEndedBefore(r)) =>
                \E h \in (r + 1)..(n - 1) : IsHeaderLine(dxbc_lines[h])

(***************************************************************************)
(* Shader-binding resolver, pass (b): the trace correlation.               *)
(*                                                                         *)
(* A call is a record [id, is_event, name]; id is the call's identity (its *)
(* position in the frame), so two calls of one frame are never equal.      *)
(***************************************************************************)
MaxCalls == 5

NoCall == [id |-> 0, is_event |-> FALSE, name |-> ""]

CallShapes ==
    {[is_event |-> TRUE,  name |-> "DrawIndexed"],
     [is_event |-> FALSE, name |-> "PSSetShaderResources"],
     [is_event |-> FALSE, name |-> "VSSetShaderResources"],
     [is_event |-> FALSE, name |-> "Map"]}

MakeCall(i, shape) == [id |-> i, is_event |-> shape.is_event, name |-> shape.name]

\* lines 2095-2099: the 0-based position of the first call equal to the
\* target, -1 when there is none
TargetIdx(calls, target) ==
    IF \E i \in 1..Len(calls) : calls[i] = target
    THEN (CHOOSE i \in 1..Len(calls) :
             /\ calls[i] = target
             /\ \A j \in 1..(i - 1) : calls[j] /= target) - 1
    ELSE -1

\* lines 2105-2115 without the break at the previous event
RECURSIVE CollectBackwardNoBreak(_, _)
CollectBackwardNoBreak(calls, i) ==
    IF i < 0 THEN <<>>
    ELSE IF calls[i + 1].name = "PSSetShaderResources" /\ ~calls[i + 1].is_event
    THEN Append(CollectBackwardNoBreak(calls, i - 1), calls[i + 1])
    ELSE CollectBackwardNoBreak(calls, i - 1)

\* lines 2105-2115: the loop "for i in range(target_idx - 1, -1, -1)" from
\* the 0-based position i downwards; insert(0, c) keeps the trace order
RECURSIVE CollectBackward(_, _)
CollectBackward(calls, i) ==
    IF i < 0 THEN <<>>
    ELSE IF calls[i + 1].is_event THEN <<>>
    ELSE IF calls[i + 1].name = "PSSetShaderResources"
    THEN Append(CollectBackward(calls, i - 1), calls[i + 1])
    ELSE CollectBackward(calls, i - 1)

\* find_ps_set_shader_resources_before_event(all_calls, target_call)
FindPsSetShaderResourcesBeforeEvent(calls, target) ==
    LET target_idx == TargetIdx(calls, target)
    IN  IF target_idx <= 0 THEN <<>> ELSE CollectBackward(calls, target_idx - 1)

\* every frame of at most n calls whose shapes are drawn from `shapes`
Frames(shapes, n) ==
    UNION {{[i \in 1..k |-> MakeCall(i, f[i])] : f \in [1..k -> shapes]} : k \in 0..n}

TraceIdle ==
    /\ target_call = NoCall
    /\ ps_set_srv_calls = <<>>
    /\ trace_pc = "idle"

TraceInit ==
    /\ all_calls \in Frames(CallShapes, MaxCalls)
    /\ target_call \in {all_calls[i] : i \in {j \in 1..Len(all_calls) : all_calls[j].is_event}}
    /\ ps_set_srv_calls = <<>>
    /\ trace_pc = "call"

FindCalls ==
    /\ trace_pc = "call"
    /\ ps_set_srv_calls' = FindPsSetShaderResourcesBeforeEvent(all_calls, target_call)
    /\ trace_pc' = "returned"
    /\ UNCHANGED <<all_calls, target_call>>

(***************************************************************************)
(* Claims about the trace correlation                                      *)
(***************************************************************************)
\* the position of the nearest event before position t, 0 when there is none
PrevEventPos(t) ==
    LET before == {j \in 1..(t - 1) : all_calls[j].is_event}
    IN  IF before = {} THEN 0 ELSE CHOOSE j \in before : \A k \in before : k <= j

\* C5: the function returns exactly the calls named PSSetShaderResources
\* that lie strictly after the nearest preceding event (or the start of the
\* trace) and strictly before the target event, in trace order.
C5_CollectsBindingCallsSincePreviousEvent ==
    trace_pc = "returned" =>
        LET t      == target_call.id
            wanted == {j \in (PrevEventPos(t) + 1)..(t - 1) :
                          all_calls[j].name = "PSSetShaderResources"}
            got    == ps_set_srv_calls
        IN  /\ {got[k].id : k \in 1..Len(got)} = wanted
            /\ \A k \in 1..Len(got) : got[k] = all_calls[got[k].id]
            /\ \A k \in 1..(Len(got) - 1) : got[k].id < got[k + 1].id

\* a binding call before the previous event is left out, a later one is kept
C5_Witness ==
    /\ trace_pc = "returned"
    /\ Len(ps_set_srv_calls) = 2
    /\ PrevEventPos(target_call.id) > 1
    /\ all_calls[1].name = "PSSetShaderResources"

(***************************************************************************)
(* Index decoder and draw windowing: export_mesh_from_buffers.             *)
(*                                                                         *)
(* The inputs are the decoded index buffer (all_indices, lines 1800-1812), *)
(* the draw parameters of get_draw_call_params and the number of whole     *)
(* records of the main vertex buffer (buffer_vertex_count, line 1875).     *)
(* A vertex is identified by its position in the vertex buffer, so the     *)
(* list `positions` of the code is the list of the vertices it copies.     *)
(***************************************************************************)
MaxIndices == 4

MaxIndexValue == 2

StartValues == 0..2

BaseValues == {-1, 0, 1}

\* s[a:b] of Python for 0 <= a, 0 <= b
PySlice(s, a, b) == SubSeq(s, a + 1, Min2(b, Len(s)))

SeqMax(s) == CHOOSE m \in Range(s) : \A x \in Range(s) : x <= m

\* sorted(S) for a finite set of integers
RECURSIVE SortedSeq(_)
SortedSeq(S) ==
    IF S = {} THEN <<>>
    ELSE LET m == CHOOSE x \in S : \A y \in S : x <= y
         IN  <<m>> \o SortedSeq(S \ {m})

\* the distinct elements of s in the order of their first occurrence
RECURSIVE FirstOccurrences(_)
FirstOccurrences(s) ==
    IF s = <<>> THEN <<>>
    ELSE LET n    == Len(s)
             prev == FirstOccurrences(SubSeq(s, 1, n - 1))
         IN  IF s[n] \in Range(prev) THEN prev ELSE Append(prev, s[n])

\* lines 1814-1821
UsedIndices(all_indices, index_count, start_index_location) ==
    IF all_indices /= <<>> /\ index_count > 0
    THEN PySlice(all_indices, start_index_location, start_index_location + index_count)
    ELSE all_indices

\* lines 1828-1829
VertexCount(used_indices, base_vertex_location) ==
    SeqMax(used_indices) + base_vertex_location + 1

\* lines 1878-1895: the number of positions decoded from the vertex buffer
NumPositions(vertex_count, buffer_vertex_count) ==
    Max2(0, Min2(vertex_count, buffer_vertex_count))

\* line 1970
AdjustedIndices(used_indices, base_vertex_location) ==
    [k \in 1..Len(used_indices) |-> used_indices[k] + base_vertex_location]

UniqueVertexIndicesUnsorted(adjusted_indices) == FirstOccurrences(adjusted_indices)

\* line 1971: sorted(set(adjusted_indices))
UniqueVertexIndices(adjusted_indices) == SortedSeq(Range(adjusted_indices))

\* line 1974
ValidVertexIndices(unique_vertex_indices, num_positions) ==
    SelectSeq(unique_vertex_indices, LAMBDA i : 0 <= i /\ i < num_positions)

\* line 1980: {old_idx: new_idx for new_idx, old_idx in enumerate(valid_vertex_indices)}
IndexMap(valid_vertex_indices) ==
    [old_idx \in Range(valid_vertex_indices) |->
        (CHOOSE k \in 1..Len(valid_vertex_indices) : valid_vertex_indices[k] = old_idx) - 1]

\* lines 2001-2005
RECURSIVE RemapIndices(_, _)
RemapIndices(adjusted_indices, index_map) ==
    IF adjusted_indices = <<>> THEN <<>>
    ELSE LET n    == Len(adjusted_indices)
             prev == RemapIndices(SubSeq(adjusted_indices, 1, n - 1), index_map)
         IN  IF adjusted_indices[n] \in DOMAIN index_map
             THEN Append(prev, index_map[adjusted_indices[n]])
             ELSE prev

\* lines 2045-2049 with the local indices written as they are, 0-based
FacesFromIndicesZeroBased(indices) ==
    [t \in 1..(IF Len(indices) >= 3 THEN Len(indices) \div 3 ELSE 0) |->
        <<indices[3 * t - 2], indices[3 * t - 1], indices[3 * t]>>]

\* lines 2045-2049: for i in range(0, len(indices) - 2, 3), 1-based OBJ indices
FacesFromIndices(indices) ==
    [t \in 1..(IF Len(indices) >= 3 THEN Len(indices) \div 3 ELSE 0) |->
        <<indices[3 * t - 2] + 1, indices[3 * t - 1] + 1, indices[3 * t] + 1>>]

\* lines 2060-2063: for i in range(0, len(positions) - 2, 3)
FacesFromPositions(n) ==
    [t \in 1..(IF n >= 3 THEN n \div 3 ELSE 0) |->
        <<3 * t - 2, 3 * t - 1, 3 * t>>]

NoMesh ==
    [written |-> FALSE, used_indices |-> <<>>, num_positions |-> 0,
     positions |-> <<>>, index_map |-> <<>>, indices |-> <<>>, faces |-> <<>>]

\* export_mesh_from_buffers from line 1814 on, the readbacks having succeeded
ExportMeshFromBuffers(in) ==
    LET used_indices == UsedIndices(in.all_indices, in.index_count,
                                    in.start_index_location)
    IN  IF used_indices = <<>> THEN NoMesh
        ELSE
        LET vertex_count  == VertexCount(used_indices, in.base_vertex_location)
            num_positions == NumPositions(vertex_count, in.buffer_vertex_count)
        IN  IF num_positions = 0 THEN NoMesh
            ELSE
            LET adjusted_indices == AdjustedIndices(used_indices, in.base_vertex_location)
                unique_vertex_indices == UniqueVertexIndices(adjusted_indices)
                valid_vertex_indices ==
                    ValidVertexIndices(unique_vertex_indices, num_positions)
            IN  IF valid_vertex_indices = <<>> THEN NoMesh
                ELSE
                LET index_map == IndexMap(valid_vertex_indices)
                    indices   == RemapIndices(adjusted_indices, index_map)
                IN  [written |-> TRUE,
                     used_indices |-> used_indices,
                     num_positions |-> num_positions,
                     positions |-> valid_vertex_indices,
                     index_map |-> index_map,
                     indices |-> indices,
                     faces |-> IF indices /= <<>>
                               THEN FacesFromIndices(indices)
                               ELSE FacesFromPositions(Len(valid_vertex_indices))]

MeshInput(I, count, start, base, nbuf) ==
    [all_indices |-> I, index_count |-> count, start_index_location |-> start,
     base_vertex_location |-> base, buffer_vertex_count |-> nbuf]

\* the worked example of the index-windowing test property
ExampleMeshInput == MeshInput(<<5, 2, 9, 1, 7, 3>>, 3, 2, 10, 20)

MeshInputs ==
    [all_indices : SeqsUpTo(0..MaxIndexValue, MaxIndices),
     index_count : 0..MaxIndices,
     start_index_location : StartValues,
     base_vertex_location : BaseValues,
     buffer_vertex_count : 0..(MaxIndexValue + 2)]

MeshIdle ==
    /\ mesh_in = MeshInput(<<>>, 0, 0, 0, 0)
    /\ mesh_out = NoMesh
    /\ mesh_pc = "idle"

MeshInit ==
    /\ \/ mesh_in \in MeshInputs
       \/ mesh_in = ExampleMeshInput
    /\ mesh_out = NoMesh
    /\ mesh_pc = "call"

ExportMesh ==
    /\ mesh_pc = "call"
    /\ mesh_out' = ExportMeshFromBuffers(mesh_in)
    /\ mesh_pc' = "returned"
    /\ UNCHANGED mesh_in

(***************************************************************************)
(* Claims about the index window and the remap                             *)
(***************************************************************************)
\* the window the claim describes, written from the draw parameters
WindowLo == IF mesh_in.index_count > 0 THEN mesh_in.start_index_location ELSE 0

WindowHi ==
    IF mesh_in.index_count > 0
    THEN Min2(mesh_in.start_index_location + mesh_in.index_count,
              Len(mesh_in.all_indices))
    ELSE Len(mesh_in.all_indices)

RealIndex(k) == mesh_out.used_indices[k] + mesh_in.base_vertex_location

\* a real index is in range when it names a record of the vertex buffer
InRange(r) == 0 <= r /\ r < mesh_in.buffer_vertex_count

ValidReal == {RealIndex(k) : k \in {j \in 1..Len(mesh_out.used_indices) : InRange(RealIndex(j))}}

RankIn(S, r) == Cardinality({v \in S : v < r})

\* the number of in-range used indices among the first k
InRangeUpTo(k) == Cardinality({j \in 1..k : InRange(RealIndex(j))})

\* C1: the used indices are the window I[Start .. Start+IndexCount) (all of
\* I when IndexCount = 0); the local index emitted for a used index is the
\* 0-based rank of its real index (index + BaseVertexLocation) among the
\* distinct in-range real indices, so the remap is order-preserving and onto
\* 0..n-1; the worked example gives window [9,1,7] and remap 11->0, 17->1,
\* 19->2.
C1_WindowAndDenseRemap ==
    (mesh_pc = "returned" /\ mesh_out.written) =>
        LET used == mesh_out.used_indices
            map  == mesh_out.index_map
            n    == Cardinality(ValidReal)
        IN  /\ Len(used) = Max2(0, WindowHi - WindowLo)
            /\ \A k \in 1..Len(used) : used[k] = mesh_in.all_indices[WindowLo + k]
            /\ DOMAIN map = ValidReal
            /\ \A r \in ValidReal : map[r] = RankIn(ValidReal, r)
            /\ {map[r] : r \in ValidReal} = 0..(n - 1)
            /\ \A r1, r2 \in ValidReal : r1 < r2 => map[r1] < map[r2]
            /\ Len(mesh_out.positions) = n
            /\ \A r \in ValidReal : mesh_out.positions[map[r] + 1] = r
            /\ Len(mesh_out.indices) = InRangeUpTo(Len(used))
            /\ \A k \in 1..Len(used) :
                  InRange(RealIndex(k)) =>
                      mesh_out.indices[InRangeUpTo(k)] = RankIn(ValidReal, RealIndex(k))
            /\ mesh_in = ExampleMeshInput =>
                  /\ used = <<9, 1, 7>>
                  /\ [k \in 1..3 |-> RealIndex(k)] = <<19, 11, 17>>
                  /\ map[11] = 0 /\ map[17] = 1 /\ map[19] = 2
                  /\ mesh_out.indices = <<2, 0, 1>>

\* the worked example has been exported
C1_Witness ==
    /\ mesh_pc = "returned"
    /\ mesh_in = ExampleMeshInput
    /\ mesh_out.written
    /\ mesh_out.positions = <<11, 17, 19>>

\* the t-th original triangle: three consecutive used indices from 3(t-1)
TriangleInRange(t) ==
    \A c \in 0..2 : InRange(RealIndex(3 * t - 2 + c))

\* C2: every emitted face is the remap of one original triangle whose three
\* real indices are all in range (faces that reference a dropped index are
\* skipped).
C2_FacesAreWholeOriginalTriangles ==
    (mesh_pc = "returned" /\ mesh_out.written) =>
        \A f \in 1..Len(mesh_out.faces) :
            \E t \in 1..(Len(mesh_out.used_indices) \div 3) :
                /\ TriangleInRange(t)
                /\ mesh_out.faces[f] =
                      [c \in 1..3 |-> RankIn(ValidReal, RealIndex(3 * t - 3 + c)) + 1]

(***************************************************************************)
(* run(): the captured frame as the host describes it.                     *)
(*                                                                         *)
(* A resource carries, besides the fields of get_description(), its        *)
(* `fate`: what the host and the file system do when the exporter handles  *)
(* it: "ok", "no_data" (the readback response omits its key),              *)
(* "desc_raises" (get_description raises) or "write_fails" (the export's   *)
(* file cannot be written).  A call carries its own fate: "ok" or          *)
(* "bindings_raise" (get_bindings raises).  A call's get_description is    *)
(* asked twice, by the event filter and by the event loop, and either      *)
(* query may raise.                                                        *)
(***************************************************************************)
MaxEvents == 3

Texture(view_type, view_id, resource_id, fate) ==
    [resource_type |-> "texture", view_type |-> view_type, view_id |-> view_id,
     resource_id |-> resource_id, stride |-> 0, size |-> 0, fate |-> fate]

Buffer(view_type, resource_id, stride, size, fate) ==
    [resource_type |-> "buffer", view_type |-> view_type, view_id |-> 0,
     resource_id |-> resource_id, stride |-> stride, size |-> size, fate |-> fate]

NoResource == 
    [resource_type |-> "none", view_type |-> "", view_id |-> 0,
     resource_id |-> 0, stride |-> 0, size |-> 0, fate |-> "ok"]

T_OK       == Texture("SRV", 0, 1, "ok")
T_NODATA   == Texture("SRV", 0, 2, "no_data")
T_VIEW1    == Texture("SRV", 1, 3, "ok")
T_RAISE    == Texture("SRV", 0, 4, "desc_raises")
IBV_OK     == Buffer("IBV", 5, 2, 12, "ok")
VBV_OK     == Buffer("VBV", 6, 24, 72, "ok")
VBV_NODATA == Buffer("VBV", 7, 32, 96, "no_data")
CBV_WF     == Buffer("CBV", 8, 0, 768, "write_fails")
CBV_OK     == Buffer("CBV", 10, 0, 768, "ok")
RTV_OK     == Texture("RTV", 0, 9, "ok")
OUTBUF_OK  == Buffer("UAV", 11, 16, 64, "ok")
OUT_RAISE  == Buffer("UAV", 12, 16, 64, "desc_raises")

NoProgram == [present |-> FALSE, fate |-> "ok", ps_dxbc |-> <<>>]

P_NAMED   == [present |-> TRUE, fate |-> "ok",
              ps_dxbc |-> <<L_RB, L_HDR, L_SEP, L_TEX0, L_TEX1, L_SAMP>>]
P_RAISE   == [present |-> TRUE, fate |-> "desc_raises", ps_dxbc |-> <<>>]

Bindings(inputs, outputs, program, input_geometry) ==
    [inputs |-> inputs, outputs |-> outputs, program |-> program,
     input_geometry |-> input_geometry]

EmptyBindings == Bindings(<<>>, <<>>, NoProgram, FALSE)

EventShape(b, fate) ==
    [is_event |-> TRUE, name |-> "DrawIndexed", fate |-> fate, bindings |-> b,
     start_slot |-> 0, views |-> <<>>]

\* a PSSetShaderResources call with its StartSlot and ppShaderResourceViews
BindShape(start_slot, views) ==
    [is_event |-> FALSE, name |-> "PSSetShaderResources", fate |-> "ok",
     bindings |-> EmptyBindings, start_slot |-> start_slot, views |-> views]

MakeRunCall(i, shape) ==
    [id |-> i, is_event |-> shape.is_event, name |-> shape.name,
     fate |-> shape.fate, bindings |-> shape.bindings,
     start_slot |-> shape.start_slot, views |-> shape.views]

RunFrames(shapes, n) ==
    UNION {{[i \in 1..k |-> MakeRunCall(i, f[i])] : f \in [1..k -> shapes]} : k \in 0..n}

\* the subsequences of s (each element kept or dropped, order kept)
RECURSIVE SubSeqsOf(_)
SubSeqsOf(s) ==
    IF s = <<>> THEN {<<>>}
    ELSE LET rest == SubSeqsOf(Tail(s))
         IN  rest \cup {<<Head(s)>> \o r : r \in rest}

(***************************************************************************)
(* run(): pure parts                                                       *)
(***************************************************************************)
\* lines 2201-2213
SelectEvents(calls, min, max) ==
    LET evs       == SelectSeq(calls, LAMBDA c : c.is_event)
        start_idx == Max2(0, min - 1)
    IN  IF max >= 1
        THEN PySlice(evs, start_idx, max)
        ELSE PySlice(evs, start_idx, Len(evs))

\* line 2255
EventIndex(min, i) == Max2(1, min) + i

\* lines 2270-2278
NewEventData(event_index, call) ==
    [index |-> event_index, id |-> call.id, error |-> "",
     exported_textures |-> 0, exported_buffers |-> 0,
     exported_shaders |-> FALSE, exported_mesh |-> FALSE]

NoEventData ==
    [index |-> 0, id |-> 0, error |-> "",
     exported_textures |-> 0, exported_buffers |-> 0,
     exported_shaders |-> FALSE, exported_mesh |-> FALSE]

\* parse_texture_bindings_from_dxbc on a whole text: the loop from line k on
RECURSIVE ScanFrom(_, _, _)
ScanFrom(st, lines, k) ==
    IF k > Len(lines) THEN st
    ELSE ScanFrom(ScanLine(st, lines[k], k), lines, k + 1)

ParseTextureBindingsFromDxbc(lines) ==
    ScanFrom([in_bindings_section |-> FALSE, header_found |-> FALSE,
              textures |-> <<>>], lines, 1).textures

\* lines 2149-2155 with a resource that has a slot keeping it
RECURSIVE BindViewsKeepFirst(_, _, _, _)
BindViewsKeepFirst(map, start_slot, views, k) ==
    IF k > Len(views) THEN map
    ELSE LET res_id == views[k]
             next   == IF res_id /= 0 /\ res_id \notin DOMAIN map
                       THEN [r \in (DOMAIN map) \cup {res_id} |->
                               IF r = res_id THEN start_slot + (k - 1) ELSE map[r]]
                       ELSE map
         IN  BindViewsKeepFirst(next, start_slot, views, k + 1)

\* lines 2149-2155: the views of one call, from position k on
RECURSIVE BindViews(_, _, _, _)
BindViews(map, start_slot, views, k) ==
    IF k > Len(views) THEN map
    ELSE LET res_id == views[k]
             next   == IF res_id /= 0
                       THEN [r \in (DOMAIN map) \cup {res_id} |->
                               IF r = res_id THEN start_slot + (k - 1) ELSE map[r]]
                       ELSE map
         IN  BindViews(next, start_slot, views, k + 1)

\* build_resource_id_to_slot_map, lines 2131-2158: the calls from position k on
RECURSIVE BuildResourceIdToSlotMapFrom(_, _, _)
BuildResourceIdToSlotMapFrom(map, calls, k) ==
    IF k > Len(calls) THEN map
    ELSE BuildResourceIdToSlotMapFrom(
             BindViews(map, calls[k].start_slot, calls[k].views, 1), calls, k + 1)

BuildResourceIdToSlotMap(calls) == BuildResourceIdToSlotMapFrom(<<>>, calls, 1)

\* build_resource_id_to_dxbc_name_map, lines 2173-2179
BuildResourceIdToDxbcNameMap(resource_id_to_slot, slot_to_name) ==
    [r \in {x \in DOMAIN resource_id_to_slot :
               resource_id_to_slot[x] \in DOMAIN slot_to_name} |->
        slot_to_name[resource_id_to_slot[r]]]

\* lines 2291-2314
SlotNamesOf(program) ==
    IF program.present /\ program.ps_dxbc /= <<>>
    THEN DxbcTextureMap(ParseTextureBindingsFromDxbc(program.ps_dxbc))
    ELSE <<>>

\* lines 2320-2336
ResourceNamesOf(calls, call, slot_to_name) ==
    IF slot_to_name = <<>> THEN <<>>
    ELSE BuildResourceIdToDxbcNameMap(
             BuildResourceIdToSlotMap(
                 FindPsSetShaderResourcesBeforeEvent(calls, call)),
             slot_to_name)

\* line 2353
IsSrvTextureView0(res) ==
    res.view_type = "SRV" /\ res.resource_type = "texture" /\ res.view_id = 0

\* export_texture without the test of lines 419-420 for the missing key
TextureExportedWithoutData(res) ==
    res.resource_type = "texture" /\ res.fate \in {"ok", "no_data"}

\* export_texture returns a file (lines 391-455)
TextureExported(res) == res.resource_type = "texture" /\ res.fate = "ok"

\* export_buffer returns a file (lines 818-893): the descriptor is written
\* whether or not the buffer's data can be read back
BufferExported(res) == res.resource_type = "buffer" /\ res.fate \in {"ok", "no_data"}

\* lines 1839-1857: the main vertex buffer among the VBV resources from
\* position k on, given the best one so far
RECURSIVE MainVbvFrom(_, _, _)
MainVbvFrom(best, vbvs, k) ==
    IF k > Len(vbvs) THEN best
    ELSE IF vbvs[k].stride /= 8 /\ vbvs[k].stride >= 24 /\ vbvs[k].stride > best.stride
    THEN MainVbvFrom(vbvs[k], vbvs, k + 1)
    ELSE MainVbvFrom(best, vbvs, k + 1)

MainVbv(vbvs) ==
    LET by_stride == MainVbvFrom(NoResource, vbvs, 1)
        others    == SelectSeq(vbvs, LAMBDA v : v.stride /= 8)
    IN  IF by_stride /= NoResource THEN by_stride
        ELSE IF others /= <<>> THEN others[1]
        ELSE NoResource

\* export_mesh_from_buffers can return a file only when the index buffer
\* and the main vertex buffer are read back (lines 1790, 1871); whether it
\* does then depends on the data
MeshFromBuffersOutcomes(ibv, vbvs) ==
    IF ibv.fate = "ok" /\ MainVbv(vbvs) /= NoResource /\ MainVbv(vbvs).fate = "ok"
    THEN BOOLEAN
    ELSE {FALSE}

\* export_mesh_to_obj: the vertex buffers the geometry metadata names are
\* the vertex buffers bound to the event (lines 1205, 1222-1224)
GeometryVertexBuffers(b) ==
    SelectSeq(b.inputs, LAMBDA r : r.resource_type = "buffer" /\ r.view_type = "VBV")

\* lines 1216-1244: the buffer of highest stride >= 24, else a buffer whose
\* layout is named POSITION, which any of them or none may be
GeometryMainBuffers(vbvs) ==
    IF MainVbvFrom(NoResource, vbvs, 1) /= NoResource
    THEN {MainVbvFrom(NoResource, vbvs, 1)}
    ELSE {NoResource} \cup Range(vbvs)

\* export_mesh_to_obj can return a file only when its main vertex buffer
\* is read back (lines 1243-1255); whether it does then depends on the data
MeshFromGeometryOutcomes(b) ==
    UNION {IF main /= NoResource /\ main.fate = "ok" THEN BOOLEAN ELSE {FALSE} :
              main \in GeometryMainBuffers(GeometryVertexBuffers(b))}

\* the order of the statements of the try block, with the mesh export
\* moved behind the shader export
StepAfterShadersFirst(step) ==
    CASE step = "bindings" -> "resolve"
      [] step = "resolve"  -> "classify"
      [] step = "classify" -> "srv"
      [] step = "srv"      -> "other"
      [] step = "other"    -> "outputs"
      [] step = "outputs"  -> "shaders"
      [] step = "shaders"  -> "mesh"
      [] step = "mesh"     -> "summary"
      [] step = "summary"  -> "append"

\* the order of the statements of the try block, lines 2281-2513
StepAfter(step) ==
    CASE step = "bindings" -> "resolve"
      [] step = "resolve"  -> "classify"
      [] step = "classify" -> "srv"
      [] step = "srv"      -> "other"
      [] step = "other"    -> "outputs"
      [] step = "outputs"  -> "mesh"
      [] step = "mesh"     -> "shaders"
      [] step = "shaders"  -> "summary"
      [] step = "summary"  -> "append"

(***************************************************************************)
(* run(): the actions                                                      *)
(***************************************************************************)
\* what run leaves alone
outsideRun == <<scanVars, traceVars, meshVars, ddsVars, skinVars, fnVars>>

CurrentCall == filtered_calls[idx + 1]

DescFailure(res) ==
    IF res.resource_type = "texture" THEN "texture_desc" ELSE "buffer_desc"

\* the handler at lines 2515-2517: the exception is recorded in the event's
\* entry and the event is left
CaughtAtEventBoundary(what) ==
    /\ event_data' = [event_data EXCEPT !.error = what]
    /\ failed' = failed \cup {what}
    /\ run_pc' = "append"

\* lines 2198-2213: every call of the trace is described (a query that may
\* raise) and the events are selected
RunSelect ==
    /\ run_pc = "select"
    /\ \/ /\ filtered_calls' = SelectEvents(all_calls, min_call, max_call)
          /\ run_pc' = "mkroot"
          /\ UNCHANGED raise_site
       \/ /\ all_calls /= <<>>
          /\ run_pc' = "raised"
          /\ raise_site' = "filter"
          /\ UNCHANGED filtered_calls
    /\ UNCHANGED <<outsideRun, meshLogVars, all_calls, runParams, idx, cursor, localVars, events, histVars>>

\* lines 2233-2249: os.makedirs(resources_dir) succeeds or raises
MakeRootDir ==
    /\ run_pc = "mkroot"
    /\ \/ run_pc' = "describe" /\ UNCHANGED raise_site
       \/ run_pc' = "raised" /\ raise_site' = "root_dir"
    /\ UNCHANGED <<outsideRun, meshLogVars, all_calls, runParams, filtered_calls, idx, cursor, localVars,
                   events, histVars>>

\* lines 2251-2255: call.get_description() of the next selected event
\* answers or raises
DescribeEvent ==
    /\ run_pc = "describe"
    /\ idx < Len(filtered_calls)
    /\ \/ /\ run_pc' = "mkdirs"
          /\ UNCHANGED raise_site
       \/ /\ run_pc' = "raised"
          /\ raise_site' = "describe"
    /\ UNCHANGED <<outsideRun, meshLogVars, all_calls, runParams, filtered_calls, idx, cursor, localVars,
                   events, histVars>>

\* lines 2257-2278: the event's directories are created (or os.makedirs
\* raises) and event_data is set up
MakeEventDirs ==
    /\ run_pc = "mkdirs"
    /\ \/ /\ event_data' = NewEventData(EventIndex(min_call, idx), CurrentCall)
          /\ run_pc' = "bindings"
          /\ steps' = <<>>
          /\ failed' = {}
          /\ mesh_paths' = <<>>
          /\ UNCHANGED raise_site
       \/ /\ run_pc' = "raised"
          /\ raise_site' = "mkdirs"
          /\ UNCHANGED <<event_data, histVars, mesh_paths>>
    /\ UNCHANGED <<outsideRun, total_meshes, all_calls, runParams, filtered_calls, idx, cursor, bindings,
                   nameVars, classVars, meshInputVars, events>>

\* lines 2280-2289
GetBindings ==
    /\ run_pc = "bindings"
    /\ \/ /\ CurrentCall.fate = "bindings_raise"
          /\ CaughtAtEventBoundary("bindings")
          /\ UNCHANGED <<bindings, dxbc_texture_map, meshInputVars>>
       \/ /\ CurrentCall.fate /= "bindings_raise"
          /\ bindings' = CurrentCall.bindings
          /\ ibv_resource' = NoResource
          /\ vbv_resources' = <<>>
          /\ cbv_resources' = <<>>
          /\ dxbc_texture_map' = <<>>
          /\ run_pc' = StepAfter("bindings")
          /\ UNCHANGED <<event_data, failed>>
    /\ UNCHANGED <<outsideRun, meshLogVars, all_calls, runParams, filtered_calls, idx, cursor,
                   resource_id_to_dxbc_name, classVars, events, raise_site, steps>>

\* lines 2291-2339: the slot -> name map of the pixel shader and the
\* resource -> name map of the binding calls before the event
ResolveShaderNames ==
    /\ run_pc = "resolve"
    /\ \/ /\ bindings.program.present
          /\ bindings.program.fate = "desc_raises"
          /\ CaughtAtEventBoundary("program_desc")
          /\ UNCHANGED <<nameVars, steps>>
       \/ /\ ~(bindings.program.present /\ bindings.program.fate = "desc_raises")
          /\ dxbc_texture_map' = SlotNamesOf(bindings.program)
          /\ resource_id_to_dxbc_name' =
                ResourceNamesOf(all_calls, CurrentCall, SlotNamesOf(bindings.program))
          /\ steps' = Append(steps, "resolve")
          /\ run_pc' = StepAfter("resolve")
          /\ UNCHANGED <<event_data, failed>>
    /\ UNCHANGED <<outsideRun, meshLogVars, all_calls, runParams, filtered_calls, idx, cursor, bindings,
                   classVars, meshInputVars, events, raise_site>>

\* lines 2341-2356: every input is described and sorted into the two lists
ClassifyInputs ==
    /\ run_pc = "classify"
    /\ LET ins == bindings.inputs
           bad == {k \in 1..Len(ins) : ins[k].fate = "desc_raises"}
           upto == IF bad = {} THEN Len(ins)
                   ELSE (CHOOSE k \in bad : \A j \in bad : k <= j) - 1
           seen == SubSeq(ins, 1, upto)
       IN  /\ srv_textures_view0' = SelectSeq(seen, IsSrvTextureView0)
           /\ other_inputs' = SelectSeq(seen, LAMBDA r : ~IsSrvTextureView0(r))
           /\ \/ /\ bad = {}
                 /\ run_pc' = StepAfter("classify")
                 /\ cursor' = 0
                 /\ UNCHANGED <<event_data, failed>>
              \/ /\ bad /= {}
                 /\ CaughtAtEventBoundary(DescFailure(ins[upto + 1]))
                 /\ UNCHANGED cursor
    /\ UNCHANGED <<outsideRun, meshLogVars, all_calls, runParams, filtered_calls, idx, bindings, nameVars,
                   meshInputVars, events, raise_site, steps>>

\* one export_texture call of run and the bookkeeping after it
TextureStep(res) ==
    /\ event_data' = [event_data EXCEPT !.exported_textures =
                         IF TextureExported(res) THEN @ + 1 ELSE @]
    /\ failed' = IF TextureExported(res) THEN failed
                 ELSE failed \cup {"texture_export"}
    /\ steps' = Append(steps, "texture")

\* one export_buffer call of run and the bookkeeping after it
BufferStep(res) ==
    /\ event_data' = [event_data EXCEPT !.exported_buffers =
                         IF BufferExported(res) THEN @ + 1 ELSE @]
    /\ failed' = IF BufferExported(res) THEN failed
                 ELSE failed \cup {"buffer_export"}
    /\ steps' = Append(steps, "buffer")

\* lines 2358-2389: one SRV texture of view 0, or the end of the loop
ExportSrvTexture ==
    /\ run_pc = "srv"
    /\ \/ /\ cursor < Len(srv_textures_view0)
          /\ TextureStep(srv_textures_view0[cursor + 1])
          /\ cursor' = cursor + 1
          /\ UNCHANGED run_pc
       \/ /\ cursor = Len(srv_textures_view0)
          /\ run_pc' = StepAfter("srv")
          /\ cursor' = 0
          /\ UNCHANGED <<event_data, histVars>>
    /\ UNCHANGED <<outsideRun, meshLogVars, all_calls, runParams, filtered_calls, idx, bindings, nameVars,
                   classVars, meshInputVars, events, raise_site>>

\* lines 2391-2429: one of the other inputs, or the end of the loop
ExportOtherInput ==
    /\ run_pc = "other"
    /\ \/ /\ cursor < Len(other_inputs)
          /\ other_inputs[cursor + 1].resource_type = "texture"
          /\ TextureStep(other_inputs[cursor + 1])
          /\ cursor' = cursor + 1
          /\ UNCHANGED <<run_pc, meshInputVars>>
       \/ /\ cursor < Len(other_inputs)
          /\ other_inputs[cursor + 1].resource_type = "buffer"
          /\ LET res == other_inputs[cursor + 1]
             IN  /\ ibv_resource' = IF res.view_type = "IBV" THEN res ELSE ibv_resource
                 /\ vbv_resources' = IF res.view_type = "VBV"
                                     THEN Append(vbv_resources, res) ELSE vbv_resources
                 /\ cbv_resources' = IF res.view_type = "CBV"
                                     THEN Append(cbv_resources, res) ELSE cbv_resources
                 /\ BufferStep(res)
          /\ cursor' = cursor + 1
          /\ UNCHANGED run_pc
       \/ /\ cursor = Len(other_inputs)
          /\ run_pc' = StepAfter("other")
          /\ cursor' = 0
          /\ UNCHANGED <<event_data, histVars, meshInputVars>>
    /\ UNCHANGED <<outsideRun, meshLogVars, all_calls, runParams, filtered_calls, idx, bindings, nameVars,
                   classVars, events, raise_site>>

\* lines 2431-2460: one output, or the end of the loop
ExportOutput ==
    /\ run_pc = "outputs"
    /\ \/ /\ cursor < Len(bindings.outputs)
          /\ bindings.outputs[cursor + 1].fate = "desc_raises"
          /\ CaughtAtEventBoundary(DescFailure(bindings.outputs[cursor + 1]))
          /\ UNCHANGED <<cursor, steps>>
       \/ /\ cursor < Len(bindings.outputs)
          /\ bindings.outputs[cursor + 1].fate /= "desc_raises"
          /\ bindings.outputs[cursor + 1].resource_type = "texture"
          /\ TextureStep(bindings.outputs[cursor + 1])
          /\ cursor' = cursor + 1
          /\ UNCHANGED run_pc
       \/ /\ cursor < Len(bindings.outputs)
          /\ bindings.outputs[cursor + 1].fate /= "desc_raises"
          /\ bindings.outputs[cursor + 1].resource_type = "buffer"
          /\ BufferStep(bindings.outputs[cursor + 1])
          /\ cursor' = cursor + 1
          /\ UNCHANGED run_pc
       \/ /\ cursor = Len(bindings.outputs)
          /\ run_pc' = StepAfter("outputs")
          /\ cursor' = 0
          /\ UNCHANGED <<event_data, histVars>>
    /\ UNCHANGED <<outsideRun, meshLogVars, all_calls, runParams, filtered_calls, idx, bindings, nameVars,
                   classVars, meshInputVars, events, raise_site>>

\* line 2476 with the test of obj_file left out
TryGeometryPathAlways(obj_file, b) == b.input_geometry

\* line 2467
TryBuffersPath(ibv, vbvs) == ibv /= NoResource /\ vbvs /= <<>>

\* line 2476
TryGeometryPath(obj_file, b) == ~obj_file /\ b.input_geometry

\* one call of a mesh exporter: the path and whether it returned a file
MeshTry(path, file) == <<[path |-> path, file |-> file]>>

\* lines 2462-2484: the IBV/VBV path, then the geometry-metadata path
ExportMeshStep ==
    /\ run_pc = "mesh"
    /\ LET try_buffers == TryBuffersPath(ibv_resource, vbv_resources)
       IN  \E from_buffers \in (IF try_buffers
                                THEN MeshFromBuffersOutcomes(ibv_resource, vbv_resources)
                                ELSE {FALSE}) :
           LET try_geometry == TryGeometryPath(from_buffers, bindings)
           IN  \E from_geometry \in (IF try_geometry
                                     THEN MeshFromGeometryOutcomes(bindings)
                                     ELSE {FALSE}) :
             LET tried    == try_buffers \/ try_geometry
                 obj_file == from_buffers \/ from_geometry
             IN  /\ event_data' = [event_data EXCEPT !.exported_mesh = obj_file]
                 /\ total_meshes' = IF obj_file THEN total_meshes + 1 ELSE total_meshes
                 /\ mesh_paths' =
                       (IF try_buffers THEN MeshTry("buffers", from_buffers) ELSE <<>>)
                       \o (IF try_geometry THEN MeshTry("geometry", from_geometry) ELSE <<>>)
                 /\ steps' = IF tried THEN Append(steps, "mesh") ELSE steps
                 /\ failed' = IF tried /\ ~obj_file THEN failed \cup {"mesh"} ELSE failed
    /\ run_pc' = StepAfter("mesh")
    /\ UNCHANGED <<outsideRun, all_calls, runParams, filtered_calls, idx, cursor, bindings,
                   nameVars, classVars, meshInputVars, events, raise_site>>

\* lines 2486-2496: export_shaders returns its list, empty when it failed
ExportShadersStep ==
    /\ run_pc = "shaders"
    /\ \/ /\ bindings.program.present
          /\ \E ok \in BOOLEAN :
                /\ event_data' = [event_data EXCEPT !.exported_shaders = ok]
                /\ failed' = IF ok THEN failed ELSE failed \cup {"shaders"}
          /\ steps' = Append(steps, "shaders")
       \/ /\ ~bindings.program.present
          /\ UNCHANGED <<event_data, histVars>>
    /\ run_pc' = StepAfter("shaders")
    /\ UNCHANGED <<outsideRun, meshLogVars, all_calls, runParams, filtered_calls, idx, cursor, bindings,
                   nameVars, classVars, meshInputVars, events, raise_site>>

\* lines 2498-2513: _event_info.json is written, or the write raises
WriteEventInfo ==
    /\ run_pc = "summary"
    /\ \/ /\ steps' = Append(steps, "summary")
          /\ run_pc' = StepAfter("summary")
          /\ UNCHANGED <<event_data, failed>>
       \/ /\ CaughtAtEventBoundary("summary")
          /\ UNCHANGED steps
    /\ UNCHANGED <<outsideRun, meshLogVars, all_calls, runParams, filtered_calls, idx, cursor, bindings,
                   nameVars, classVars, meshInputVars, events, raise_site>>

\* line 2519
AppendEvent ==
    /\ run_pc = "append"
    /\ events' = Append(events, event_data)
    /\ idx' = idx + 1
    /\ run_pc' = "describe"
    /\ UNCHANGED <<outsideRun, meshLogVars, all_calls, runParams, filtered_calls, cursor, localVars,
                   raise_site, histVars>>

\* lines 2521-2550: the loop is over and run returns its result list
ReturnResults ==
    /\ run_pc = "describe"
    /\ idx = Len(filtered_calls)
    /\ run_pc' = "returned"
    /\ UNCHANGED <<outsideRun, meshLogVars, all_calls, runParams, filtered_calls, idx, cursor, localVars,
                   events, raise_site, histVars>>

RunLocalsInit ==
    /\ run_pc = "select"
    /\ filtered_calls = <<>>
    /\ idx = 0
    /\ cursor = 0
    /\ bindings = EmptyBindings
    /\ dxbc_texture_map = <<>>
    /\ resource_id_to_dxbc_name = <<>>
    /\ srv_textures_view0 = <<>>
    /\ other_inputs = <<>>
    /\ ibv_resource = NoResource
    /\ vbv_resources = <<>>
    /\ cbv_resources = <<>>
    /\ event_data = NoEventData
    /\ events = <<>>
    /\ raise_site = ""
    /\ steps = <<>>
    /\ failed = {}
    /\ mesh_paths = <<>>
    /\ total_meshes = 0

RunIdle ==
    /\ min_call = 1
    /\ max_call = -1
    /\ enable_skinning = 0
    /\ run_pc = "idle"
    /\ filtered_calls = <<>>
    /\ idx = 0
    /\ cursor = 0
    /\ bindings = EmptyBindings
    /\ dxbc_texture_map = <<>>
    /\ resource_id_to_dxbc_name = <<>>
    /\ srv_textures_view0 = <<>>
    /\ other_inputs = <<>>
    /\ ibv_resource = NoResource
    /\ vbv_resources = <<>>
    /\ cbv_resources = <<>>
    /\ event_data = NoEventData
    /\ events = <<>>
    /\ raise_site = ""
    /\ steps = <<>>
    /\ failed = {}
    /\ mesh_paths = <<>>
    /\ total_meshes = 0

\* the frames of SpecRun: a healthy event with every kind of artifact, an
\* event with nothing bound, one event for each way an event can be cut
\* short, and a binding call
B_FULL == Bindings(<<T_OK, T_VIEW1, IBV_OK, VBV_OK, CBV_OK>>, <<RTV_OK, OUTBUF_OK>>,
                   P_NAMED, TRUE)

RunCallShapes ==
    {EventShape(B_FULL, "ok"),
     EventShape(EmptyBindings, "ok"),
     EventShape(EmptyBindings, "bindings_raise"),
     EventShape(Bindings(<<T_VIEW1, T_RAISE>>, <<>>, NoProgram, FALSE), "ok"),
     EventShape(Bindings(<<>>, <<OUT_RAISE>>, NoProgram, FALSE), "ok"),
     EventShape(Bindings(<<>>, <<>>, P_RAISE, FALSE), "ok"),
     BindShape(0, <<1>>)}

RunInit ==
    /\ all_calls \in RunFrames(RunCallShapes, MaxEvents)
    /\ min_call \in 0..(MaxEvents + 1)
    /\ max_call \in -2..MaxEvents
    /\ enable_skinning = 0
    /\ RunLocalsInit

\* the frames of SpecEvent: one event with any combination of resources,
\* alone or after a binding call
InputCandidates == <<T_OK, T_NODATA, T_VIEW1, T_RAISE, IBV_OK, VBV_OK, VBV_NODATA, CBV_WF>>

OutputCandidates == <<RTV_OK, OUTBUF_OK, OUT_RAISE>>

EventBindings ==
    {Bindings(ins, outs, prog, geo) :
        ins \in SubSeqsOf(InputCandidates),
        outs \in SubSeqsOf(OutputCandidates),
        prog \in {NoProgram, P_NAMED, P_RAISE},
        geo \in BOOLEAN}

EventFrames ==
    {<<MakeRunCall(1, EventShape(b, "ok"))>> : b \in EventBindings}
    \cup {<<MakeRunCall(1, BindShape(0, <<2, 1>>)), MakeRunCall(2, EventShape(b, "ok"))>> :
             b \in {x \in EventBindings : x.program = P_NAMED /\ x.outputs = <<>>}}
    \cup {<<MakeRunCall(1, EventShape(B_FULL, "bindings_raise"))>>}

EventInit ==
    /\ all_calls \in EventFrames
    /\ min_call = 1
    /\ max_call = -1
    /\ enable_skinning \in {0, 1}
    /\ RunLocalsInit

(***************************************************************************)
(* run(): properties                                                       *)
(***************************************************************************)
AllEvents == SelectSeq(all_calls, LAMBDA c : c.is_event)

\* the 1-based positions p among the events with min_call <= p <= max_call,
\* max_call = -1 meaning no upper bound
RequestedPositions ==
    {p \in 1..Len(AllEvents) :
        min_call <= p /\ (max_call = -1 \/ p <= max_call)}

\* the calls of the trace from behind the event before the current one up
\* to the current event
OwnSegment ==
    LET t == CHOOSE j \in 1..Len(all_calls) : all_calls[j] = CurrentCall
    IN  SubSeq(all_calls, PrevEventPos(t) + 1, t)

\* the buffers of one view type among an event's inputs
BuffersOfView(ins, view_type) ==
    SelectSeq(ins, LAMBDA r : r.resource_type = "buffer" /\ r.view_type = view_type)

LastOr(seq, none) == IF seq = <<>> THEN none ELSE seq[Len(seq)]

\* C24: the tables an event uses come from the event itself: its bindings
\* are its own, the slot -> name map is that of its own pixel shader, the
\* resource -> name map is what the calls behind the previous event and
\* its own shader give, and the IBV, VBV and CBV resources handed to the
\* mesh step are those among its own inputs; so they are the same whatever
\* the earlier events hold.
C24_TablesComeFromOwnEvent ==
    /\ run_pc \in {"classify", "srv", "other", "outputs", "mesh", "shaders", "summary"} =>
          /\ bindings = CurrentCall.bindings
          /\ dxbc_texture_map = SlotNamesOf(CurrentCall.bindings.program)
          /\ resource_id_to_dxbc_name =
                ResourceNamesOf(OwnSegment, CurrentCall,
                                SlotNamesOf(CurrentCall.bindings.program))
    /\ run_pc \in {"classify", "srv"} =>
          /\ ibv_resource = NoResource
          /\ vbv_resources = <<>>
          /\ cbv_resources = <<>>
    /\ run_pc \in {"outputs", "mesh"} =>
          /\ ibv_resource =
                LastOr(BuffersOfView(CurrentCall.bindings.inputs, "IBV"),
                       NoResource)
          /\ vbv_resources = BuffersOfView(CurrentCall.bindings.inputs, "VBV")
          /\ cbv_resources = BuffersOfView(CurrentCall.bindings.inputs, "CBV")

\* the mesh step of a second event that binds what the first one bound: the
\* first had its texture named by a binding call, the second has none of
\* its own and so no named resource
C24_Witness ==
    /\ run_pc = "mesh"
    /\ idx >= 1
    /\ events[idx].error = ""
    /\ filtered_calls[idx].bindings = CurrentCall.bindings
    /\ ibv_resource /= NoResource /\ vbv_resources /= <<>> /\ cbv_resources /= <<>>
    /\ dxbc_texture_map /= <<>>
    /\ resource_id_to_dxbc_name = <<>>
    /\ ResourceNamesOf(all_calls, filtered_calls[idx], dxbc_texture_map) /= <<>>

\* C6: when run returns, its result entries are, in trace order, exactly
\* the events whose 1-based position p among the events of the trace has
\* min_call <= p <= max_call (no upper bound when max_call = -1), each
\* labelled with event_index = p, whatever integers min_call and max_call are.
C6_ProcessesExactlyRequestedRange ==
    run_pc = "returned" =>
        /\ Len(events) = Cardinality(RequestedPositions)
        /\ \A k \in 1..Len(events) :
              /\ events[k].index \in RequestedPositions
              /\ events[k].id = AllEvents[events[k].index].id
              /\ \A j \in 1..(k - 1) : events[j].index < events[k].index

\* C7: once run is over, the events having been selected and the root
\* directory created, every selected event has exactly one result entry, in
\* event order, and an event whose processing raised carries the exception
\* in its "error" field.
C7_OneResultEntryPerSelectedEvent ==
    (run_pc \in {"returned", "raised"} /\ raise_site \notin {"filter", "root_dir"}) =>
        /\ Len(events) = Len(filtered_calls)
        /\ \A k \in 1..Len(events) :
              /\ events[k].id = filtered_calls[k].id
              /\ filtered_calls[k].fate /= "ok" => events[k].error /= ""

\* C8: run propagates a failure to its caller only when creating the root
\* output directory failed; nothing that fails while one event is handled
\* leaves run.
C8_OnlyRootDirFailurePropagates ==
    run_pc = "raised" => raise_site = "root_dir"

\* the failures of single steps that are to cost one artifact only
SingleStepFailures ==
    {"program_desc", "texture_desc", "buffer_desc", "texture_export",
     "buffer_export", "mesh", "shaders"}

CountOf(log, what) == Cardinality({k \in DOMAIN log : log[k] = what})

\* C9: when an event is over and only single steps failed in it (the program
\* description query, describing or exporting a texture or a buffer, the
\* mesh export, the shader export), no error is recorded for the event and
\* all its other steps ran: every input and output went through its export,
\* the shaders were exported when a program is bound, and _event_info.json
\* was written last.
C9_StepFailureCostsOneArtifactOnly ==
    (run_pc = "append" /\ failed /= {} /\ failed \subseteq SingleStepFailures) =>
        /\ event_data.error = ""
        /\ CountOf(steps, "texture") + CountOf(steps, "buffer")
              = Len(bindings.inputs) + Len(bindings.outputs)
        /\ bindings.program.present => CountOf(steps, "shaders") = 1
        /\ steps /= <<>> /\ steps[Len(steps)] = "summary"

StepRank(what) ==
    CASE what = "resolve" -> 1
      [] what = "texture" -> 2
      [] what = "buffer"  -> 2
      [] what = "mesh"    -> 3
      [] what = "shaders" -> 4
      [] what = "summary" -> 5

\* C10: the steps of an event run in order: name resolution is over before
\* any texture is exported, every texture and buffer export is over before
\* the mesh export, the mesh export precedes the shader export, and the
\* event summary is written after all exports as the last step of the event.
C10_StepsRunInOrder ==
    /\ \A i \in DOMAIN steps : \A j \in DOMAIN steps :
          i < j => StepRank(steps[i]) <= StepRank(steps[j])
    /\ \A i \in DOMAIN steps : steps[i] = "texture" => steps[1] = "resolve"
    /\ \A i \in DOMAIN steps : steps[i] = "summary" => i = Len(steps)
    /\ CountOf(steps, "summary") = 1 =>
          run_pc \in {"append", "describe", "mkdirs", "returned", "raised"}

C10_Witness ==
    /\ run_pc = "append"
    /\ \A what \in {"resolve", "texture", "buffer", "mesh", "shaders", "summary"} :
          CountOf(steps, what) >= 1
    /\ event_data.exported_mesh
    /\ event_data.exported_shaders

HasIbvAndVbv(ins) ==
    /\ \E k \in DOMAIN ins : ins[k].resource_type = "buffer" /\ ins[k].view_type = "IBV"
    /\ \E k \in DOMAIN ins : ins[k].resource_type = "buffer" /\ ins[k].view_type = "VBV"

MeshesOfEventUnderWay ==
    IF run_pc \in {"shaders", "summary", "append"} /\ event_data.exported_mesh
    THEN 1 ELSE 0

\* C11: when the mesh step of an event is over, the IBV/VBV path was tried
\* first if the inputs hold an IBV buffer and a VBV buffer; the
\* geometry-metadata path ran only with geometry metadata present and no
\* file from the IBV/VBV path; exported_mesh is set exactly when one of the
\* paths returned a file; and each event adds at most one to the mesh count.
C11_BufferPathFirstThenGeometry ==
    /\ run_pc = "shaders" =>
          /\ HasIbvAndVbv(bindings.inputs) =>
                (mesh_paths /= <<>> /\ mesh_paths[1].path = "buffers")
          /\ \A k \in DOMAIN mesh_paths :
                /\ mesh_paths[k].path = "buffers" => k = 1
                /\ mesh_paths[k].path = "geometry" =>
                      /\ bindings.input_geometry
                      /\ \A j \in 1..(k - 1) : ~mesh_paths[j].file
          /\ event_data.exported_mesh <=> \E k \in DOMAIN mesh_paths : mesh_paths[k].file
    /\ total_meshes =
          Cardinality({k \in DOMAIN events : events[k].exported_mesh})
          + MeshesOfEventUnderWay

C11_Witness ==
    /\ run_pc = "shaders"
    /\ HasIbvAndVbv(bindings.inputs)
    /\ mesh_paths = MeshTry("buffers", FALSE) \o MeshTry("geometry", TRUE)
    /\ event_data.exported_mesh
    /\ total_meshes = 1

Bound(b) == Range(b.inputs) \cup Range(b.outputs)

\* nothing the event touches raises: neither a description query nor
\* get_bindings nor the write of the event summary
NothingRaises ==
    /\ CurrentCall.fate = "ok"
    /\ \A r \in Bound(bindings) : r.fate /= "desc_raises"
    /\ ~(bindings.program.present /\ bindings.program.fate = "desc_raises")
    /\ "summary" \notin failed

ReadBack(seq) == Cardinality({k \in DOMAIN seq : seq[k].resource_type = "texture"
                                                   /\ seq[k].fate = "ok"})

\* C12: when the readback response omits the key of a request, no exception
\* results: for an event over which nothing raises, no error is recorded,
\* the textures exported are exactly those read back, a mesh path whose
\* index or main vertex buffer is not read back returns no file, and the
\* steps after it, the event summary included, are carried out.
C12_MissingReadbackKeyIsNoError ==
    (run_pc = "append" /\ idx < Len(filtered_calls) /\ NothingRaises) =>
        /\ event_data.error = ""
        /\ event_data.exported_textures
              = ReadBack(bindings.inputs) + ReadBack(bindings.outputs)
        /\ \A k \in DOMAIN mesh_paths :
              /\ (/\ mesh_paths[k].path = "buffers"
                  /\ \/ ibv_resource.fate = "no_data"
                     \/ MainVbv(vbv_resources).fate = "no_data")
                 => ~mesh_paths[k].file
              /\ (/\ mesh_paths[k].path = "geometry"
                  /\ \A main \in GeometryMainBuffers(GeometryVertexBuffers(bindings)) :
                        main.fate = "no_data")
                 => ~mesh_paths[k].file
        /\ CountOf(steps, "texture") + CountOf(steps, "buffer")
              = Len(bindings.inputs) + Len(bindings.outputs)
        /\ bindings.program.present => CountOf(steps, "shaders") = 1
        /\ steps /= <<>> /\ steps[Len(steps)] = "summary"

C12_Witness ==
    /\ run_pc = "append"
    /\ NothingRaises
    /\ \E k \in DOMAIN bindings.inputs : bindings.inputs[k] = T_NODATA
    /\ MainVbv(vbv_resources) = VBV_NODATA
    /\ mesh_paths = MeshTry("buffers", FALSE) \o MeshTry("geometry", FALSE)
    /\ event_data.exported_textures = 1
    /\ event_data.exported_shaders
    /\ steps[Len(steps)] = "summary"

(***************************************************************************)
(* The DDS encoder: format tables.  A format identifier is the sequence of *)
(* its characters, so that `key in tex_format` is the test for a           *)
(* contiguous run of characters that it is in the code.                    *)
(***************************************************************************)
DDSD_CAPS == 1

DDSD_HEIGHT == 2

DDSD_WIDTH == 4

DDSD_PITCH == 8

DDSD_PIXELFORMAT == 4096

DDSD_LINEARSIZE == 524288

\* lines 48-88, in the order of the dict
DXGI_FORMAT ==
    <<[key |-> <<"R", "8", "G", "8", "B", "8", "A", "8", "_", "U", "N", "O", "R", "M">>, value |-> 28],
      [key |-> <<"R", "8", "G", "8", "B", "8", "A", "8", "_", "U", "N", "O", "R", "M", "_", "S", "R", "G", "B">>, value |-> 29],
      [key |-> <<"R", "8", "G", "8", "B", "8", "A", "8">>, value |-> 28],
      [key |-> <<"B", "8", "G", "8", "R", "8", "A", "8", "_", "U", "N", "O", "R", "M">>, value |-> 87],
      [key |-> <<"B", "8", "G", "8", "R", "8", "A", "8", "_", "U", "N", "O", "R", "M", "_", "S", "R", "G", "B">>, value |-> 91],
      [key |-> <<"B", "8", "G", "8", "R", "8", "A", "8">>, value |-> 87],
      [key |-> <<"B", "8", "G", "8", "R", "8", "X", "8", "_", "U", "N", "O", "R", "M">>, value |-> 88],
      [key |-> <<"R", "1", "6", "G", "1", "6", "B", "1", "6", "A", "1", "6", "_", "F", "L", "O", "A", "T">>, value |-> 10],
      [key |-> <<"R", "3", "2", "G", "3", "2", "B", "3", "2", "A", "3", "2", "_", "F", "L", "O", "A", "T">>, value |-> 2],
      [key |-> <<"R", "1", "0", "G", "1", "0", "B", "1", "0", "A", "2", "_", "U", "N", "O", "R", "M">>, value |-> 24],
      [key |-> <<"R", "1", "1", "G", "1", "1", "B", "1", "0", "_", "F", "L", "O", "A", "T">>, value |-> 26],
      [key |-> <<"B", "C", "1", "_", "U", "N", "O", "R", "M">>, value |-> 71],
      [key |-> <<"B", "C", "1", "_", "U", "N", "O", "R", "M", "_", "S", "R", "G", "B">>, value |-> 72],
      [key |-> <<"B", "C", "1">>, value |-> 71],
      [key |-> <<"B", "C", "2", "_", "U", "N", "O", "R", "M">>, value |-> 74],
      [key |-> <<"B", "C", "2", "_", "U", "N", "O", "R", "M", "_", "S", "R", "G", "B">>, value |-> 75],
      [key |-> <<"B", "C", "2">>, value |-> 74],
      [key |-> <<"B", "C", "3", "_", "U", "N", "O", "R", "M">>, value |-> 77],
      [key |-> <<"B", "C", "3", "_", "U", "N", "O", "R", "M", "_", "S", "R", "G", "B">>, value |-> 78],
      [key |-> <<"B", "C", "3">>, value |-> 77],
      [key |-> <<"B", "C", "4", "_", "U", "N", "O", "R", "M">>, value |-> 80],
      [key |-> <<"B", "C", "4", "_", "S", "N", "O", "R", "M">>, value |-> 81],
      [key |-> <<"B", "C", "4">>, value |-> 80],
      [key |-> <<"B", "C", "5", "_", "U", "N", "O", "R", "M">>, value |-> 83],
      [key |-> <<"B", "C", "5", "_", "S", "N", "O", "R", "M">>, value |-> 84],
      [key |-> <<"B", "C", "5">>, value |-> 83],
      [key |-> <<"B", "C", "6", "H", "_", "U", "F", "1", "6">>, value |-> 95],
      [key |-> <<"B", "C", "6", "H", "_", "S", "F", "1", "6">>, value |-> 96],
      [key |-> <<"B", "C", "6", "H">>, value |-> 95],
      [key |-> <<"B", "C", "7", "_", "U", "N", "O", "R", "M">>, value |-> 98],
      [key |-> <<"B", "C", "7", "_", "U", "N", "O", "R", "M", "_", "S", "R", "G", "B">>, value |-> 99],
      [key |-> <<"B", "C", "7">>, value |-> 98],
      [key |-> <<"R", "8", "_", "U", "N", "O", "R", "M">>, value |-> 61],
      [key |-> <<"R", "8", "G", "8", "_", "U", "N", "O", "R", "M">>, value |-> 49],
      [key |-> <<"R", "1", "6", "_", "F", "L", "O", "A", "T">>, value |-> 54],
      [key |-> <<"R", "1", "6", "_", "U", "N", "O", "R", "M">>, value |-> 56],
      [key |-> <<"R", "3", "2", "_", "F", "L", "O", "A", "T">>, value |-> 41],
      [key |-> <<"D", "2", "4", "_", "U", "N", "O", "R", "M", "_", "S", "8", "_", "U", "I", "N", "T">>, value |-> 45],
      [key |-> <<"D", "3", "2", "_", "F", "L", "O", "A", "T">>, value |-> 40]>>

\* Python's `sub in s` on strings
Contains(sub, s) ==
    \E i \in 0..(Len(s) - Len(sub)) : SubSeq(s, i + 1, i + Len(sub)) = sub

\* get_dxgi_format, lines 150-161: the exact key, else the first key of the
\* table found inside the identifier, else 28
GetDxgiFormat(fmt) ==
    LET exact   == {k \in DOMAIN DXGI_FORMAT : DXGI_FORMAT[k].key = fmt}
        matches == {k \in DOMAIN DXGI_FORMAT : Contains(DXGI_FORMAT[k].key, fmt)}
    IN  IF exact /= {} THEN DXGI_FORMAT[CHOOSE k \in exact : TRUE].value
        ELSE IF matches /= {}
        THEN DXGI_FORMAT[CHOOSE k \in matches : \A j \in matches : k <= j].value
        ELSE 28

\* get_bytes_per_pixel, lines 164-188
GetBytesPerPixel(fmt) ==
    IF Contains(<<"R","3","2","G","3","2","B","3","2","A","3","2">>, fmt) THEN 16
    ELSE IF Contains(<<"R","1","6","G","1","6","B","1","6","A","1","6">>, fmt) THEN 8
    ELSE IF Contains(<<"R","3","2","G","3","2">>, fmt) THEN 8
    ELSE IF \/ Contains(<<"R","1","0","G","1","0","B","1","0","A","2">>, fmt)
            \/ Contains(<<"R","1","1","G","1","1","B","1","0">>, fmt) THEN 4
    ELSE IF \/ Contains(<<"R","8","G","8","B","8","A","8">>, fmt)
            \/ Contains(<<"B","8","G","8","R","8","A","8">>, fmt)
            \/ Contains(<<"B","8","G","8","R","8","X","8">>, fmt) THEN 4
    ELSE IF Contains(<<"R","3","2">>, fmt) \/ Contains(<<"D","3","2">>, fmt) THEN 4
    ELSE IF Contains(<<"D","2","4">>, fmt) THEN 4
    ELSE IF Contains(<<"R","1","6","G","1","6">>, fmt) THEN 4
    ELSE IF Contains(<<"R","8","G","8">>, fmt) THEN 2
    ELSE IF Contains(<<"R","1","6">>, fmt) THEN 2
    ELSE IF Contains(<<"R","8">>, fmt) THEN 1
    ELSE 4

\* get_bc_block_size, lines 191-199
GetBcBlockSize(fmt) ==
    IF Contains(<<"B","C","1">>, fmt) \/ Contains(<<"B","C","4">>, fmt) THEN 8
    ELSE IF \/ Contains(<<"B","C","2">>, fmt)
            \/ Contains(<<"B","C","3">>, fmt)
            \/ Contains(<<"B","C","5">>, fmt) THEN 16
    ELSE IF Contains(<<"B","C","6","H">>, fmt) \/ Contains(<<"B","C","7">>, fmt) THEN 16
    ELSE 0

\* is_bc_format, lines 202-204
IsBcFormat(fmt) ==
    \E bc \in {<<"B","C","1">>, <<"B","C","2">>, <<"B","C","3">>, <<"B","C","4">>,
               <<"B","C","5">>, <<"B","C","6","H">>, <<"B","C","7">>} : Contains(bc, fmt)

\* the bitwise or of two naturals
RECURSIVE BitOr(_, _)
BitOr(a, b) ==
    IF a = 0 THEN b
    ELSE IF b = 0 THEN a
    ELSE 2 * BitOr(a \div 2, b \div 2) + (IF a % 2 = 1 \/ b % 2 = 1 THEN 1 ELSE 0)

(***************************************************************************)
(* flip_image_vertical                                                     *)
(***************************************************************************)
\* bytearray(n)
ZeroBytes(n) == [i \in 1..n |-> 0]

\* flipped[dst:dst + n] = data[src:src + n], both slices inside their arrays
CopyRow(flipped, data, dst, src, n) ==
    [i \in 1..Len(flipped) |->
        IF dst < i /\ i <= dst + n THEN data[src + (i - dst)] ELSE flipped[i]]

\* lines 231-236 and 246-251: the loop over the rows from row y on
RECURSIVE FlipRows(_, _, _, _, _)
FlipRows(flipped, data, y, rows, row_size) ==
    IF y >= rows THEN flipped
    ELSE LET src_offset == y * row_size
             dst_offset == (rows - 1 - y) * row_size
         IN  IF src_offset + row_size <= Len(data) /\ dst_offset + row_size <= Len(flipped)
             THEN FlipRows(CopyRow(flipped, data, dst_offset, src_offset, row_size),
                           data, y + 1, rows, row_size)
             ELSE FlipRows(flipped, data, y + 1, rows, row_size)

\* lines 207-253
FlipImageVertical(data, w, h, fmt) ==
    IF IsBcFormat(fmt)
    THEN FlipRows(ZeroBytes(Len(data)), data, 0, (h + 3) \div 4,
                  ((w + 3) \div 4) * GetBcBlockSize(fmt))
    ELSE FlipRows(ZeroBytes(Len(data)), data, 0, h, w * GetBytesPerPixel(fmt))

(***************************************************************************)
(* save_as_dds                                                             *)
(***************************************************************************)
\* nothing was written: struct.pack_into raised on a negative field
\* (lines 317-321, 373-375)
NoDdsFile ==
    [ok |-> FALSE, flags |-> 0, height |-> 0, width |-> 0,
     pitch_or_linear_size |-> 0, dxgi_format |-> 0, payload |-> <<>>]

\* lines 278 and 283 with both flags set whatever the format
DdsFlagsPitchAndLinearSize(pitch_or_linear) ==
    BitOr(BitOr(BitOr(BitOr(BitOr(DDSD_CAPS, DDSD_HEIGHT), DDSD_WIDTH), DDSD_PIXELFORMAT),
                DDSD_PITCH), DDSD_LINEARSIZE)

\* lines 278 and 283
DdsFlags(pitch_or_linear) ==
    BitOr(BitOr(BitOr(BitOr(DDSD_CAPS, DDSD_HEIGHT), DDSD_WIDTH), DDSD_PIXELFORMAT),
          pitch_or_linear)

\* lines 267-375: the fields of the file written, as far as they depend on
\* the arguments
SaveAsDds(data, w, h, fmt) ==
    LET dxgi_format   == GetDxgiFormat(fmt)
        block_size    == GetBcBlockSize(fmt)
        is_compressed == block_size > 0
        pitch_or_linear_size ==
            IF is_compressed
            THEN ((w + 3) \div 4) * ((h + 3) \div 4) * block_size
            ELSE w * GetBytesPerPixel(fmt)
        flags == IF is_compressed THEN DdsFlags(DDSD_LINEARSIZE) ELSE DdsFlags(DDSD_PITCH)
    IN  IF h < 0 \/ w < 0 \/ pitch_or_linear_size < 0
        THEN NoDdsFile
        ELSE [ok |-> TRUE, flags |-> flags, height |-> h, width |-> w,
              pitch_or_linear_size |-> pitch_or_linear_size,
              dxgi_format |-> dxgi_format, payload |-> data]

(***************************************************************************)
(* The DDS encoder: one call                                               *)
(***************************************************************************)
MaxWidth == 5

MaxHeight == 5

MaxDataLen == 17

\* a driver's suffix to a format name
FormatSuffix == <<"_", "X">>

\* the identifiers of the table, the same with a suffix, and one the table
\* does not know
FormatIdentifiers ==
    {DXGI_FORMAT[k].key : k \in DOMAIN DXGI_FORMAT}
    \cup {DXGI_FORMAT[k].key \o FormatSuffix : k \in DOMAIN DXGI_FORMAT}
    \cup {<<"u","n","k","n","o","w","n">>}

\* a payload of n bytes, all different and none zero
Payload(n) == [i \in 1..n |-> i]

DdsIdle ==
    /\ tex_format = <<>>
    /\ width = 0
    /\ height = 0
    /\ raw_data = <<>>
    /\ dds_pc = "idle"
    /\ dds_out = <<>>

\* a call of one of the three functions with its arguments
DdsInit ==
    /\ tex_format \in FormatIdentifiers
    /\ \/ /\ dds_pc = "get_dxgi_format"
          /\ width = 0
          /\ height = 0
          /\ raw_data = <<>>
       \/ /\ dds_pc = "save_as_dds"
          /\ width \in -1..MaxWidth
          /\ height \in 0..MaxHeight
          /\ raw_data \in {Payload(n) : n \in 0..MaxDataLen}
       \/ /\ dds_pc = "flip_image_vertical"
          /\ width \in 0..MaxWidth
          /\ height \in 0..MaxHeight
          /\ raw_data \in {Payload(n) : n \in 0..MaxDataLen}
    /\ dds_out = <<>>

outsideDds == <<scanVars, all_calls, traceVars, meshVars, runVars, skinVars, fnVars>>

\* get_dxgi_format(tex_format)
CallGetDxgiFormat ==
    /\ dds_pc = "get_dxgi_format"
    /\ dds_out' = GetDxgiFormat(tex_format)
    /\ dds_pc' = "returned"
    /\ UNCHANGED <<outsideDds, tex_format, width, height, raw_data>>

\* save_as_dds(raw_data, width, height, tex_format, output_path)
CallSaveAsDds ==
    /\ dds_pc = "save_as_dds"
    /\ dds_out' = SaveAsDds(raw_data, width, height, tex_format)
    /\ dds_pc' = "saved"
    /\ UNCHANGED <<outsideDds, tex_format, width, height, raw_data>>

\* flip_image_vertical(raw_data, width, height, tex_format), and again on
\* what it returned
CallFlipImageVertical ==
    /\ \/ /\ dds_pc = "flip_image_vertical"
          /\ dds_out' = FlipImageVertical(raw_data, width, height, tex_format)
          /\ dds_pc' = "flipped_once"
       \/ /\ dds_pc = "flipped_once"
          /\ dds_out' = FlipImageVertical(dds_out, width, height, tex_format)
          /\ dds_pc' = "flipped_twice"
    /\ UNCHANGED <<outsideDds, tex_format, width, height, raw_data>>

(***************************************************************************)
(* The DDS encoder: properties                                             *)
(***************************************************************************)
HasFlag(flags, flag) == (flags \div flag) % 2 = 1

CeilDiv4(x) == IF x % 4 = 0 THEN x \div 4 ELSE (x \div 4) + 1

Saved == dds_pc = "saved" /\ dds_out.ok

\* C13: the file save_as_dds writes holds width x bytesPerPixel with the
\* PITCH flag and without LINEARSIZE for an uncompressed format, and
\* ceil(width/4) x ceil(height/4) x blockSize with LINEARSIZE and without
\* PITCH for a block-compressed format; exactly one of the two flags is set.
C13_PitchOrLinearSizeMatchesItsFlag ==
    Saved =>
        /\ IsBcFormat(tex_format) =>
              /\ dds_out.pitch_or_linear_size
                    = CeilDiv4(width) * CeilDiv4(height) * GetBcBlockSize(tex_format)
              /\ HasFlag(dds_out.flags, DDSD_LINEARSIZE)
              /\ ~HasFlag(dds_out.flags, DDSD_PITCH)
        /\ ~IsBcFormat(tex_format) =>
              /\ dds_out.pitch_or_linear_size = width * GetBytesPerPixel(tex_format)
              /\ HasFlag(dds_out.flags, DDSD_PITCH)
              /\ ~HasFlag(dds_out.flags, DDSD_LINEARSIZE)
        /\ HasFlag(dds_out.flags, DDSD_PITCH) /= HasFlag(dds_out.flags, DDSD_LINEARSIZE)

C13_Witness ==
    /\ Saved
    /\ IsBcFormat(tex_format)
    /\ width = 5
    /\ height = 5
    /\ dds_out.pitch_or_linear_size = 64
    /\ HasFlag(dds_out.flags, DDSD_LINEARSIZE)

\* C14: for a block-compressed format the payload save_as_dds writes after
\* the headers is ceil(width/4) x ceil(height/4) x blockSize bytes long,
\* whatever payload it was given.
C14_PayloadLengthIsLinearSize ==
    (Saved /\ IsBcFormat(tex_format)) =>
        Len(dds_out.payload)
           = CeilDiv4(width) * CeilDiv4(height) * GetBcBlockSize(tex_format)

IsPrefix(p, q) == Len(p) <= Len(q) /\ SubSeq(q, 1, Len(p)) = p

PrefixKeys(fmt) == {k \in DOMAIN DXGI_FORMAT : IsPrefix(DXGI_FORMAT[k].key, fmt)}

LongestPrefixKey(fmt) ==
    CHOOSE k \in PrefixKeys(fmt) :
        \A j \in PrefixKeys(fmt) : Len(DXGI_FORMAT[j].key) <= Len(DXGI_FORMAT[k].key)

\* C15: for an identifier made of a table key and a suffix, get_dxgi_format
\* returns the code of the longest table key that is a prefix of the
\* identifier.
C15_SuffixedNameYieldsLongestKey ==
    (dds_pc = "returned" /\ PrefixKeys(tex_format) /= {}) =>
        dds_out = DXGI_FORMAT[LongestPrefixKey(tex_format)].value

\* width and height are whole numbers of blocks (of rows, for a format
\* that is not block-compressed)
DividesEvenly ==
    IsBcFormat(tex_format) => (width % 4 = 0 /\ height % 4 = 0)

\* C16: flip_image_vertical applied twice with the same width, height and
\* format returns the bytes it was first given, in block mode and in row
\* mode, whatever the length of the input.
C16_FlipTwiceIsIdentity ==
    (dds_pc = "flipped_twice" /\ DividesEvenly) => dds_out = raw_data

(***************************************************************************)
(* Skinning arithmetic.  The code computes in floating point; the model    *)
(* computes in exact fractions n/d (d > 0, in lowest terms), which agree   *)
(* with the code wherever the floating-point result is exact.              *)
(***************************************************************************)
Abs(x) == IF x < 0 THEN -x ELSE x

RECURSIVE Gcd(_, _)
Gcd(a, b) == IF b = 0 THEN a ELSE Gcd(b, a % b)

\* the fraction n/d in lowest terms, d /= 0
Frac(n, d) ==
    LET g  == Gcd(Abs(n), Abs(d))
        sg == IF d < 0 THEN -1 ELSE 1
    IN  [n |-> (sg * n) \div g, d |-> (sg * d) \div g]

\* the number i
Q(i) == [n |-> i, d |-> 1]

RAdd(a, b) == Frac(a.n * b.d + b.n * a.d, a.d * b.d)

RMul(a, b) == Frac(a.n * b.n, a.d * b.d)

\* a tuple of integers as a tuple of numbers
QTuple(t) == [k \in DOMAIN t |-> Q(t[k])]

(***************************************************************************)
(* parse_bone_weights_data                                                 *)
(***************************************************************************)
\* line 543 with the division by 255 of a plain byte-to-unit conversion
InvTotalOf255(total) == Frac(1, 255)

\* line 543
InvTotal(total) == Frac(1, total)

\* lines 540-551
NormalizedWeights(w) ==
    LET total == w[1] + w[2] + w[3] + w[4]
    IN  IF total > 0
        THEN [k \in 1..4 |-> RMul(Q(w[k]), InvTotal(total))]
        ELSE <<Q(1), Q(0), Q(0), Q(0)>>

\* lines 526-529: the records the loop reaches
NumBoneRecords(buffer_data, num_vertices) ==
    Max2(0, Min2(num_vertices, Len(buffer_data) \div 8))

\* lines 520-553
ParseBoneWeightsData(buffer_data, num_vertices) ==
    LET n == NumBoneRecords(buffer_data, num_vertices)
    IN  [bone_indices_list |->
            [i \in 1..n |-> SubSeq(buffer_data, (i - 1) * 8 + 5, (i - 1) * 8 + 8)],
         bone_weights_list |->
            [i \in 1..n |->
                NormalizedWeights(SubSeq(buffer_data, (i - 1) * 8 + 1, (i - 1) * 8 + 4))]]

(***************************************************************************)
(* blend_bone_matrices, skin_position, skin_normal, apply_skinning         *)
(***************************************************************************)
ZeroRow == <<Q(0), Q(0), Q(0), Q(0)>>

\* lines 578-581
SafeGet(skeleton_data, i) ==
    IF 0 <= i /\ i < Len(skeleton_data) THEN skeleton_data[i + 1] ELSE ZeroRow

\* lines 583-600 with the weights left out of the sum
BlendBoneMatricesUnweighted(weights, indices, skeleton_data) ==
    [row_offset \in 1..3 |->
        [c \in 1..4 |->
            RAdd(RAdd(SafeGet(skeleton_data, indices[1] * 3 + row_offset - 1)[c],
                      SafeGet(skeleton_data, indices[2] * 3 + row_offset - 1)[c]),
                 RAdd(SafeGet(skeleton_data, indices[3] * 3 + row_offset - 1)[c],
                      SafeGet(skeleton_data, indices[4] * 3 + row_offset - 1)[c]))]]

\* lines 568-600
BlendBoneMatrices(weights, indices, skeleton_data) ==
    [row_offset \in 1..3 |->
        LET r0 == SafeGet(skeleton_data, indices[1] * 3 + row_offset - 1)
            r1 == SafeGet(skeleton_data, indices[2] * 3 + row_offset - 1)
            r2 == SafeGet(skeleton_data, indices[3] * 3 + row_offset - 1)
            r3 == SafeGet(skeleton_data, indices[4] * 3 + row_offset - 1)
        IN  [c \in 1..4 |->
                RAdd(RAdd(RAdd(RMul(weights[1], r0[c]), RMul(weights[2], r1[c])),
                          RMul(weights[3], r2[c])),
                     RMul(weights[4], r3[c]))]]

\* a*x + b*y + c*z + t
Affine(a, x, b, y, c, z, t) ==
    RAdd(RAdd(RAdd(RMul(a, x), RMul(b, y)), RMul(c, z)), t)

\* lines 615-637
SkinPosition(pos, bone_mat, row_major) ==
    LET px == pos[1]
        py == pos[2]
        pz == pos[3]
        mat0 == bone_mat[1]
        mat1 == bone_mat[2]
        mat2 == bone_mat[3]
    IN  IF row_major
        THEN <<Affine(mat0[1], px, mat0[2], py, mat0[3], pz, mat0[4]),
               Affine(mat1[1], px, mat1[2], py, mat1[3], pz, mat1[4]),
               Affine(mat2[1], px, mat2[2], py, mat2[3], pz, mat2[4])>>
        ELSE <<Affine(mat0[1], px, mat1[1], py, mat2[1], pz, mat0[4]),
               Affine(mat0[2], px, mat1[2], py, mat2[2], pz, mat1[4]),
               Affine(mat0[3], px, mat1[3], py, mat2[3], pz, mat2[4])>>

\* lines 640-680: the normal rotated by the matrix and renormalised, kept
\* as the term it is computed from (it involves a square root)
SkinNormal(normal, bone_mat, row_major) ==
    [skinned |-> normal, by |-> bone_mat, row_major |-> row_major]

\* line 703 with no vertex skinned
NumSkinnedNone(positions, bone_indices, bone_weights) == 0

\* line 703
NumSkinned(positions, bone_indices, bone_weights) ==
    Min2(Len(positions), Min2(Len(bone_indices), Len(bone_weights)))

\* lines 700-813
ApplySkinning(positions, normals, bone_indices, bone_weights, skeleton_data, row_major) ==
    LET num_vertices == NumSkinned(positions, bone_indices, bone_weights)
        bone_mat(i)  == BlendBoneMatrices(bone_weights[i], bone_indices[i], skeleton_data)
    IN  [skinned_positions |->
            [i \in 1..num_vertices |-> SkinPosition(positions[i], bone_mat(i), row_major)]
            \o SubSeq(positions, num_vertices + 1, Len(positions)),
         skinned_normals |->
            [i \in 1..Min2(num_vertices, Len(normals)) |->
                SkinNormal(normals[i], bone_mat(i), row_major)]
            \o SubSeq(normals, num_vertices + 1, Len(normals))]

(***************************************************************************)
(* Skinning: one call                                                      *)
(***************************************************************************)
MaxBoneRecords == 3

MaxVertices == 3

WeightBytes == {0, 1, 128, 255}

IndexQuads == {<<0, 1, 2, 3>>, <<7, 0, 255, 7>>}

\* an 8-byte record: four weight bytes, four index bytes (lines 532-535)
BoneRecord(w, i) == w \o i

AllBoneRecords == {BoneRecord(w, i) : w \in [1..4 -> WeightBytes], i \in IndexQuads}

SomeBoneRecords ==
    {BoneRecord(<<0, 0, 0, 0>>, <<0, 1, 2, 3>>),
     BoneRecord(<<255, 0, 0, 0>>, <<7, 0, 255, 7>>),
     BoneRecord(<<1, 1, 1, 0>>, <<0, 1, 2, 3>>),
     BoneRecord(<<128, 128, 255, 1>>, <<7, 0, 255, 7>>)}

RECURSIVE Flatten(_)
Flatten(ss) == IF ss = <<>> THEN <<>> ELSE Head(ss) \o Flatten(Tail(ss))

\* bytes after the last whole record
TrailingBytes == {<<>>, <<9, 9, 9>>}

\* buffers of one record of any content, and of several records
BoneBuffers ==
    {r \o t : r \in AllBoneRecords, t \in TrailingBytes}
    \cup {Flatten(rs) \o t : rs \in SeqsUpTo(SomeBoneRecords, MaxBoneRecords),
                            t \in TrailingBytes}

PositionsOf(n) == [i \in 1..n |-> QTuple(<<i, 2 * i, -i>>)]

NormalsOf(n) == [i \in 1..n |-> <<10 * i, 20, 30>>]

Repeat(x, n) == [i \in 1..n |-> x]

\* bone indices inside and outside the tables below
SkinIndexQuads == {<<0, 1, 0, 1>>, <<1, 200, 85, 2>>, <<200, 0, 0, 0>>}

SkinWeights ==
    {<<Q(1), Q(0), Q(0), Q(0)>>,
     <<Frac(1, 2), Frac(1, 2), Q(0), Q(0)>>,
     NormalizedWeights(<<1, 1, 1, 0>>)}

IdentityRows == <<QTuple(<<1, 0, 0, 0>>), QTuple(<<0, 1, 0, 0>>), QTuple(<<0, 0, 1, 0>>)>>

\* a table of k identity matrices
IdentityTable(k) == Flatten(Repeat(IdentityRows, k))

\* a quarter turn with a translation, and a scaling
TurnAndScaleTable ==
    <<QTuple(<<0, -1, 0, 5>>), QTuple(<<1, 0, 0, 6>>), QTuple(<<0, 0, 1, 7>>),
      QTuple(<<2, 0, 0, 0>>), QTuple(<<0, 3, 0, 0>>), QTuple(<<0, 0, 4, 0>>)>>

SkeletonTables == {IdentityTable(k) : k \in 0..2} \cup {TurnAndScaleTable}

Dot3(a, b) == a[1] * b[1] + a[2] * b[2] + a[3] * b[3]

\* the rows of m are unit vectors at right angles
IsOrthonormal3x3(m) ==
    \A i \in 1..3 : \A j \in 1..3 : Dot3(m[i], m[j]) = (IF i = j THEN 1 ELSE 0)

\* the orthonormal matrices with entries in {-1, 0, 1}, and a shear
Matrices3x3 ==
    {m \in [1..3 -> [1..3 -> {-1, 0, 1}]] : IsOrthonormal3x3(m)}
    \cup {<<<<1, 1, 0>>, <<0, 1, 0>>, <<0, 0, 1>>>>}

Translations == {<<0, 0, 0>>, <<1, -2, 3>>}

\* the 4x3 matrix of a 3x3 part and a translation
BoneMat(m, t) == [i \in 1..3 |-> QTuple(m[i] \o <<t[i]>>)]

SkinIdle ==
    /\ skin_args = <<>>
    /\ skin_pc = "idle"
    /\ skin_out = <<>>

\* a call of one of the three functions with its arguments
SkinInit ==
    /\ \/ /\ skin_pc = "parse_bone_weights_data"
          /\ skin_args \in [buffer_data : BoneBuffers,
                            num_vertices : 0..(MaxBoneRecords + 1)]
       \/ /\ skin_pc = "apply_skinning"
          /\ \E np \in 0..MaxVertices, nn \in 0..MaxVertices,
                ni \in 0..MaxVertices, nw \in 0..MaxVertices :
                skin_args \in [positions : {PositionsOf(np)},
                               normals : {NormalsOf(nn)},
                               bone_indices : {Repeat(q, ni) : q \in SkinIndexQuads},
                               bone_weights : {Repeat(w, nw) : w \in SkinWeights},
                               skeleton_data : SkeletonTables,
                               row_major : BOOLEAN]
       \/ /\ skin_pc = "skin_position"
          /\ skin_args \in [pos : {QTuple(<<x, y, z>>) :
                                      x \in {-1, 0, 2}, y \in {-1, 0, 2}, z \in {-1, 0, 2}},
                            bone_mat : {BoneMat(m, t) : m \in Matrices3x3, t \in Translations}]
    /\ skin_out = <<>>

outsideSkin == <<scanVars, all_calls, traceVars, meshVars, runVars, ddsVars, fnVars>>

\* parse_bone_weights_data(buffer_data, num_vertices)
CallParseBoneWeightsData ==
    /\ skin_pc = "parse_bone_weights_data"
    /\ skin_out' = ParseBoneWeightsData(skin_args.buffer_data, skin_args.num_vertices)
    /\ skin_pc' = "parsed"
    /\ UNCHANGED <<outsideSkin, skin_args>>

\* apply_skinning(positions, normals, bone_indices, bone_weights, skeleton_data, row_major)
CallApplySkinning ==
    /\ skin_pc = "apply_skinning"
    /\ skin_out' = ApplySkinning(skin_args.positions, skin_args.normals,
                                 skin_args.bone_indices, skin_args.bone_weights,
                                 skin_args.skeleton_data, skin_args.row_major)
    /\ skin_pc' = "skinned"
    /\ UNCHANGED <<outsideSkin, skin_args>>

\* skin_position(pos, bone_mat, row_major=True), then
\* skin_position(pos, bone_mat, row_major=False)
CallSkinPosition ==
    /\ \/ /\ skin_pc = "skin_position"
          /\ skin_out' = <<SkinPosition(skin_args.pos, skin_args.bone_mat, TRUE)>>
          /\ skin_pc' = "row_major_done"
       \/ /\ skin_pc = "row_major_done"
          /\ skin_out' = Append(skin_out,
                                SkinPosition(skin_args.pos, skin_args.bone_mat, FALSE))
          /\ skin_pc' = "both_done"
    /\ UNCHANGED <<outsideSkin, skin_args>>

(***************************************************************************)
(* Skinning: claims                                                        *)
(***************************************************************************)
\* the i-th 8-byte record of the buffer handed to parse_bone_weights_data
RecordAt(i) == SubSeq(skin_args.buffer_data, (i - 1) * 8 + 1, i * 8)

RawSum(r) == r[1] + r[2] + r[3] + r[4]

Parsed == skin_pc = "parsed"

\* C17: every record parse_bone_weights_data reaches yields, when its four
\* weight bytes sum to S > 0, the weights w0/S .. w3/S, which sum to 1; when
\* S = 0 the weights (1,0,0,0); and as bone indices its last four bytes.
C17_WeightsDividedByOwnSum ==
    Parsed =>
        /\ Len(skin_out.bone_weights_list) = Len(skin_out.bone_indices_list)
        /\ \A i \in 1..Len(skin_out.bone_weights_list) :
              LET r == RecordAt(i)
                  w == skin_out.bone_weights_list[i]
              IN  /\ RawSum(r) > 0 =>
                        /\ \A k \in 1..4 : w[k] = Frac(r[k], RawSum(r))
                        /\ RAdd(RAdd(w[1], w[2]), RAdd(w[3], w[4])) = Q(1)
                  /\ RawSum(r) = 0 => w = <<Q(1), Q(0), Q(0), Q(0)>>
                  /\ skin_out.bone_indices_list[i] = SubSeq(r, 5, 8)

\* a buffer whose parsed records include one with sum 0 and one whose sum is
\* neither 0 nor 255
C17_Witness ==
    /\ Parsed
    /\ \E i \in 1..Len(skin_out.bone_weights_list) : RawSum(RecordAt(i)) = 0
    /\ \E i \in 1..Len(skin_out.bone_weights_list) :
          /\ RawSum(RecordAt(i)) \notin {0, 255}
          /\ skin_out.bone_indices_list[i] = <<7, 0, 255, 7>>

Skinned == skin_pc = "skinned"

\* the vertices apply_skinning has bone data for
NumWithBoneData ==
    Min2(Len(skin_args.positions),
         Min2(Len(skin_args.bone_indices), Len(skin_args.bone_weights)))

\* the table is a whole number (at least one) of identity matrices
IsIdentityTable(t) ==
    /\ Len(t) > 0
    /\ Len(t) % 3 = 0
    /\ \A k \in 1..Len(t) :
          t[k] = [c \in 1..4 |-> IF c = ((k - 1) % 3) + 1 THEN Q(1) ELSE Q(0)]

\* all weight on the first bone, which lies inside the table
AllWeightOnOneBoneInside(i) ==
    /\ skin_args.bone_weights[i] = <<Q(1), Q(0), Q(0), Q(0)>>
    /\ skin_args.bone_indices[i][1] * 3 + 2 < Len(skin_args.skeleton_data)

\* one of the other three bone indices points outside the table
SomeOtherBoneOutside(i) ==
    \E k \in 2..4 : skin_args.bone_indices[i][k] * 3 >= Len(skin_args.skeleton_data)

\* C18: with a table of identity matrices only and all weight (1,0,0,0) on
\* a bone inside the table, the skinned position is the input position,
\* whatever the other three bone indices are.
C18_IdentityTableKeepsPosition ==
    (Skinned /\ IsIdentityTable(skin_args.skeleton_data)) =>
        \A i \in 1..NumWithBoneData :
            AllWeightOnOneBoneInside(i) =>
                skin_out.skinned_positions[i] = skin_args.positions[i]

\* such a vertex, with another bone index outside the table
C18_Witness ==
    /\ Skinned
    /\ IsIdentityTable(skin_args.skeleton_data)
    /\ \E i \in 1..NumWithBoneData :
          /\ AllWeightOnOneBoneInside(i)
          /\ SomeOtherBoneOutside(i)
          /\ skin_out.skinned_positions[i] = skin_args.positions[i]

\* C19: apply_skinning transforms the vertices below min(#positions,
\* #bone-index tuples, #bone-weight tuples), passes every later position and
\* normal through, and returns lists as long as the ones it was given.
C19_SkinsExactlyVerticesWithBoneData ==
    Skinned =>
        LET n == NumWithBoneData
            mat(i) == BlendBoneMatrices(skin_args.bone_weights[i],
                                        skin_args.bone_indices[i],
                                        skin_args.skeleton_data)
        IN  /\ Len(skin_out.skinned_positions) = Len(skin_args.positions)
            /\ Len(skin_out.skinned_normals) = Len(skin_args.normals)
            /\ \A i \in 1..Len(skin_args.positions) :
                  skin_out.skinned_positions[i] =
                      IF i <= n
                      THEN SkinPosition(skin_args.positions[i], mat(i), skin_args.row_major)
                      ELSE skin_args.positions[i]
            /\ \A i \in 1..Len(skin_args.normals) :
                  skin_out.skinned_normals[i] =
                      IF i <= n
                      THEN SkinNormal(skin_args.normals[i], mat(i), skin_args.row_major)
                      ELSE skin_args.normals[i]

\* a call with a moved vertex followed by positions and normals without
\* bone data
C19_Witness ==
    /\ Skinned
    /\ NumWithBoneData >= 1
    /\ Len(skin_args.positions) > NumWithBoneData
    /\ Len(skin_args.normals) > NumWithBoneData
    /\ skin_out.skinned_positions[1] /= skin_args.positions[1]
    /\ skin_out.skinned_positions[Len(skin_args.positions)]
          = skin_args.positions[Len(skin_args.positions)]

\* the 3x3 part of a matrix of whole numbers
Part3x3(bone_mat) == [i \in 1..3 |-> [j \in 1..3 |-> bone_mat[i][j].n]]

\* C20: for a matrix with an orthonormal 3x3 part, skin_position returns the
\* same position in row-major mode and in column-major mode.
C20_BothModesAgreeOnOrthonormal ==
    (skin_pc = "both_done" /\ IsOrthonormal3x3(Part3x3(skin_args.bone_mat))) =>
        skin_out[1] = skin_out[2]

(***************************************************************************)
(* build_resource_id_to_slot_map and build_resource_id_to_dxbc_name_map:   *)
(* one call of each on a list of binding calls and a slot -> name table,   *)
(* and the file names export_texture derives from the result               *)
(***************************************************************************)
MaxBindCalls == 3

FnIdle ==
    /\ fn_args = <<>>
    /\ fn_pc = "idle"
    /\ fn_out = <<>>

outsideFn == <<scanVars, all_calls, traceVars, meshVars, runVars, ddsVars, skinVars>>

\* view lists with null entries, repeated and reordered resources
ViewLists == {<<>>, <<1>>, <<1, 2>>, <<2, 1>>, <<0, 1>>, <<1, 1>>, <<2, 0, 3>>}

BindCallShapes == {BindShape(s, v) : s \in {0, 1}, v \in ViewLists}

\* slot -> name tables: none, one row, rows for slots 0 and 2
SlotNameTables ==
    {<<>>, [s \in {0} |-> "tBaseMap"],
     [s \in {0, 2} |-> IF s = 0 THEN "tBaseMap" ELSE "tNormalMap"]}

ResourceIds == {1, 2, 3, 4}

\* run, lines 2365-2368: the name handed to export_texture
DxbcNameOf(res_id, resource_id_to_name) ==
    IF res_id \in DOMAIN resource_id_to_name THEN resource_id_to_name[res_id] ELSE ""

\* export_texture, lines 425-434: the file name, as its parts
DdsFileName(res_id, dxbc_name) ==
    IF dxbc_name /= "" THEN <<"t_", dxbc_name, "_", res_id, ".dds">>
    ELSE <<"tex_", res_id, ".dds">>

SlotInit ==
    /\ fn_pc = "build_resource_id_to_slot_map"
    /\ fn_args \in [ps_set_srv_calls : SeqsUpTo(BindCallShapes, MaxBindCalls),
                    dxbc_texture_map : SlotNameTables]
    /\ fn_out = <<>>

\* build_resource_id_to_slot_map(ps_set_srv_calls)
CallBuildResourceIdToSlotMap ==
    /\ fn_pc = "build_resource_id_to_slot_map"
    /\ fn_out' = [resource_id_to_slot |-> BuildResourceIdToSlotMap(fn_args.ps_set_srv_calls)]
    /\ fn_pc' = "build_resource_id_to_dxbc_name_map"
    /\ UNCHANGED <<outsideFn, fn_args>>

\* build_resource_id_to_dxbc_name_map(resource_id_to_slot, dxbc_texture_map),
\* then the file name of every resource
CallBuildResourceIdToDxbcNameMap ==
    /\ fn_pc = "build_resource_id_to_dxbc_name_map"
    /\ LET names == BuildResourceIdToDxbcNameMap(fn_out.resource_id_to_slot,
                                                 fn_args.dxbc_texture_map)
       IN  fn_out' = [resource_id_to_slot |-> fn_out.resource_id_to_slot,
                      resource_id_to_dxbc_name |-> names,
                      file_names |-> [r \in ResourceIds |->
                                         DdsFileName(r, DxbcNameOf(r, names))]]
    /\ fn_pc' = "named"
    /\ UNCHANGED <<outsideFn, fn_args>>

(***************************************************************************)
(* Resource naming: claims                                                 *)
(***************************************************************************)
Named == fn_pc = "named"

\* the positions of call k's view list that hold resource r
ViewPositions(r, k) ==
    {p \in 1..Len(fn_args.ps_set_srv_calls[k].views) :
        fn_args.ps_set_srv_calls[k].views[p] = r}

\* the collected calls that list resource r
CallsListing(r) ==
    {k \in 1..Len(fn_args.ps_set_srv_calls) : ViewPositions(r, k) /= {}}

SetMax(S) == CHOOSE x \in S : \A y \in S : y <= x

\* C21: every non-zero resource of a binding call has the slot StartSlot +
\* its position in the view list of the nearest call that lists it (null
\* entries keep their position and get no entry); a resource has a symbolic
\* name exactly when its slot has a row in the slot -> name table, and its
\* file is named after the resource ID alone otherwise.
C21_SlotFromNearestCallAndNameBySlot ==
    Named =>
        LET slots == fn_out.resource_id_to_slot
            names == fn_out.resource_id_to_dxbc_name
            table == fn_args.dxbc_texture_map
        IN  /\ DOMAIN slots = {r \in ResourceIds : CallsListing(r) /= {}}
            /\ \A r \in DOMAIN slots :
                  LET k == SetMax(CallsListing(r))
                  IN  slots[r] = fn_args.ps_set_srv_calls[k].start_slot
                                    + SetMax(ViewPositions(r, k)) - 1
            /\ \A r \in ResourceIds :
                  IF r \in DOMAIN slots /\ slots[r] \in DOMAIN table
                  THEN /\ r \in DOMAIN names
                       /\ names[r] = table[slots[r]]
                       /\ fn_out.file_names[r] = <<"t_", table[slots[r]], "_", r, ".dds">>
                  ELSE /\ r \notin DOMAIN names
                       /\ fn_out.file_names[r] = <<"tex_", r, ".dds">>

\* a resource listed by two calls at different slots, named by the later
\* one, next to a resource behind a null entry and one without a name
C21_Witness ==
    /\ Named
    /\ \E r \in DOMAIN fn_out.resource_id_to_slot :
          /\ \E j \in CallsListing(r), k \in CallsListing(r) :
                /\ j < k
                /\ fn_args.ps_set_srv_calls[j].start_slot + SetMax(ViewPositions(r, j)) - 1
                      /= fn_out.resource_id_to_slot[r]
          /\ r \in DOMAIN fn_out.resource_id_to_dxbc_name
    /\ \E k \in 1..Len(fn_args.ps_set_srv_calls) :
          fn_args.ps_set_srv_calls[k].views = <<2, 0, 3>>
    /\ \E r \in DOMAIN fn_out.resource_id_to_slot :
          r \notin DOMAIN fn_out.resource_id_to_dxbc_name

\* C29: in the resource -> slot map no two distinct resources have the same
\* slot, so no two of them receive the same symbolic name.
C29_NoTwoResourcesShareASlot ==
    Named =>
        /\ \A r1 \in DOMAIN fn_out.resource_id_to_slot :
              \A r2 \in DOMAIN fn_out.resource_id_to_slot :
                  r1 /= r2 => fn_out.resource_id_to_slot[r1] /= fn_out.resource_id_to_slot[r2]
        /\ \A r1 \in DOMAIN fn_out.resource_id_to_dxbc_name :
              \A r2 \in DOMAIN fn_out.resource_id_to_dxbc_name :
                  r1 /= r2 => fn_out.resource_id_to_dxbc_name[r1]
                                 /= fn_out.resource_id_to_dxbc_name[r2]

(***************************************************************************)
(* get_bytes_per_pixel and get_bc_block_size on one format identifier      *)
(***************************************************************************)
FormatInit ==
    /\ fn_pc = "get_bytes_per_pixel"
    /\ fn_args \in [tex_format : FormatIdentifiers]
    /\ fn_out = <<>>

\* get_bytes_per_pixel(tex_format)
CallGetBytesPerPixel ==
    /\ fn_pc = "get_bytes_per_pixel"
    /\ fn_out' = [bytes_per_pixel |-> GetBytesPerPixel(fn_args.tex_format)]
    /\ fn_pc' = "get_bc_block_size"
    /\ UNCHANGED <<outsideFn, fn_args>>

\* get_bc_block_size(tex_format)
CallGetBcBlockSize ==
    /\ fn_pc = "get_bc_block_size"
    /\ fn_out' = [bytes_per_pixel |-> fn_out.bytes_per_pixel,
                  block_size |-> GetBcBlockSize(fn_args.tex_format)]
    /\ fn_pc' = "sized"
    /\ UNCHANGED <<outsideFn, fn_args>>

\* C25: for every format identifier exactly one of bytes-per-pixel and
\* block size is nonzero: a block-compressed identifier has bytes-per-pixel
\* 0, any other identifier has block size 0.
C25_ExactlyOneSizeIsNonzero ==
    fn_pc = "sized" =>
        /\ (fn_out.bytes_per_pixel /= 0) /= (fn_out.block_size /= 0)
        /\ IsBcFormat(fn_args.tex_format) => fn_out.bytes_per_pixel = 0
        /\ ~IsBcFormat(fn_args.tex_format) => fn_out.block_size = 0

(***************************************************************************)
(* Vertex decoding.  A vertex buffer is a sequence of bytes.  A float read *)
(* from it is kept as its IEEE-754 single-precision bit pattern: the sign  *)
(* bit and the 31 bits of exponent and fraction, whose order as a number   *)
(* is the order of the magnitudes they encode (NaN and infinity above all  *)
(* finite values).                                                         *)
(***************************************************************************)
\* struct.unpack_from('<f', data_bytes, offset)
F32At(data_bytes, offset) ==
    [sign |-> data_bytes[offset + 4] \div 128,
     mag  |-> (data_bytes[offset + 4] % 128) * 16777216 + data_bytes[offset + 3] * 65536
                 + data_bytes[offset + 2] * 256 + data_bytes[offset + 1]]

\* the bit pattern of 100.0 without its sign
Bits100 == 1120403456

\* abs(f) < 100
AbsBelow100(f) == f.mag < Bits100

\* the float 0.0
FloatZero == [sign |-> 0, mag |-> 0]

\* (u, 1.0 - v)
FlippedTexcoord(u, v) == <<u, [one_minus |-> v]>>

\* decode_ubyte4_normal, lines 1082-1089
DecodeUbyte4Normal(nx, ny, nz) == <<nx, ny, nz>>

\* struct.unpack_from('<fff', data_bytes, base_offset)
PositionAt(data_bytes, base_offset) ==
    <<F32At(data_bytes, base_offset), F32At(data_bytes, base_offset + 4),
      F32At(data_bytes, base_offset + 8)>>

\* lines 1139-1171: where the normal lies in a record of a known layout
NormalOffset(stride) == IF stride \in {28, 36} THEN 16 ELSE 12

NormalAt(data_bytes, base_offset, stride) ==
    LET o == base_offset + NormalOffset(stride)
    IN  DecodeUbyte4Normal(data_bytes[o + 1], data_bytes[o + 2], data_bytes[o + 3])

\* lines 1144-1145, 1152-1153, 1161-1162, 1170-1171, 1181-1187
TexcoordAt(data_bytes, base_offset, stride) ==
    LET o == base_offset + NormalOffset(stride) + 4
        u == F32At(data_bytes, o)
        v == F32At(data_bytes, o + 4)
    IN  IF stride \in {24, 28, 32, 36} THEN FlippedTexcoord(u, v)
        ELSE IF AbsBelow100(u) /\ AbsBelow100(v) THEN FlippedTexcoord(u, v)
        ELSE <<FloatZero, FloatZero>>

\* lines 1127-1131: the records the loop reaches (stride > 0)
RecordsReached(data_bytes, stride, num_vertices) ==
    Max2(0, Min2(num_vertices, Len(data_bytes) \div stride))

\* parse_vertex_data_by_stride, lines 1122-1191 (stride > 0).  The position
\* is read as 12 bytes whatever the stride: a record of fewer than 12 bytes
\* at the end of the buffer makes struct.unpack_from raise.
ParseVertexDataByStride(vertex_data, stride, num_vertices) ==
    LET n == RecordsReached(vertex_data, stride, num_vertices)
    IN  IF \E i \in 0..(n - 1) : i * stride + 12 > Len(vertex_data)
        THEN [raised |-> TRUE, positions |-> <<>>, normals |-> <<>>, texcoords |-> <<>>]
        ELSE [raised |-> FALSE,
              positions |-> [i \in 1..n |-> PositionAt(vertex_data, (i - 1) * stride)],
              normals |-> IF stride >= 24
                          THEN [i \in 1..n |-> NormalAt(vertex_data, (i - 1) * stride, stride)]
                          ELSE <<>>,
              texcoords |-> IF stride >= 24
                            THEN [i \in 1..n |->
                                     TexcoordAt(vertex_data, (i - 1) * stride, stride)]
                            ELSE <<>>]

\* export_mesh_from_buffers, lines 1887-1895, and export_mesh_to_obj, lines
\* 1266-1275: the records below actual_vertex_count that have 12 bytes
PositionOnlyRecords(vertex_data, main_stride, actual_vertex_count) ==
    SelectSeq([i \in 1..Max2(0, actual_vertex_count) |-> i - 1],
              LAMBDA i : i * main_stride + 12 <= Len(vertex_data))

\* export_mesh_from_buffers, lines 1873-1895: the vertex data decoded for
\* vertex_count requested vertices
DecodeVertexBuffer(vertex_data, main_stride, vertex_count) ==
    LET buffer_vertex_count == IF main_stride > 0 THEN Len(vertex_data) \div main_stride
                               ELSE 0
        actual_vertex_count == Min2(vertex_count, buffer_vertex_count)
    IN  IF main_stride >= 24
        THEN ParseVertexDataByStride(vertex_data, main_stride, actual_vertex_count)
        ELSE LET recs == PositionOnlyRecords(vertex_data, main_stride, actual_vertex_count)
             IN  [raised |-> FALSE,
                  positions |-> [k \in 1..Len(recs) |->
                                    PositionAt(vertex_data, recs[k] * main_stride)],
                  normals |-> <<>>,
                  texcoords |-> <<>>]

(***************************************************************************)
(* Vertex decoding: one call                                               *)
(***************************************************************************)
MaxVertexRecords == 2

\* the floats 0.5, 1.0, -1.0, 100.0 and a NaN, in little-endian bytes
F_HALF == <<0, 0, 0, 63>>

F_ONE == <<0, 0, 128, 63>>

F_MINUS_ONE == <<0, 0, 128, 191>>

F_100 == <<0, 0, 200, 66>>

F_NAN == <<0, 0, 192, 127>>

\* the leading 24 bytes of a record: position, normal bytes, u, v
Leading24(u, v) == F_ONE \o F_HALF \o F_MINUS_ONE \o <<10, 20, 30, 0>> \o u \o v

\* leading bytes with small texture coordinates, with u = 100.0, with v a NaN
RecordHeads == {Leading24(F_HALF, F_ONE), Leading24(F_100, F_HALF), Leading24(F_HALF, F_NAN)}

\* the bytes that follow the leading 24 in a longer record
RecordFiller == <<200, 100, 50, 0>> \o F_MINUS_ONE \o F_ONE \o <<7, 7, 7, 7>>

\* a record of the given stride
VertexRecord(head, stride) == SubSeq(head \o RecordFiller, 1, stride)

VertexStrides == {4, 8, 12, 16, 24, 25, 28, 32, 36, 40}

VertexBuffers(stride) ==
    {Flatten([k \in 1..Len(hs) |-> VertexRecord(hs[k], stride)]) \o t :
        hs \in SeqsUpTo(RecordHeads, MaxVertexRecords), t \in {<<>>, <<9, 9, 9>>}}

\* a call of parse_vertex_data_by_stride, or the decoding step of the two
\* mesh exporters
VertexInit ==
    /\ fn_pc \in {"parse_vertex_data_by_stride", "decode_vertex_buffer"}
    /\ \E stride \in VertexStrides :
          fn_args \in [vertex_data : VertexBuffers(stride), stride : {stride},
                       num_vertices : 0..(MaxVertexRecords + 1)]
    /\ fn_out = <<>>

\* parse_vertex_data_by_stride(vertex_data, stride, num_vertices)
CallParseVertexDataByStride ==
    /\ fn_pc = "parse_vertex_data_by_stride"
    /\ fn_out' = ParseVertexDataByStride(fn_args.vertex_data, fn_args.stride,
                                         fn_args.num_vertices)
    /\ fn_pc' = "parsed"
    /\ UNCHANGED <<outsideFn, fn_args>>

\* the decoding step of export_mesh_from_buffers for num_vertices requested
\* vertices
CallDecodeVertexBuffer ==
    /\ fn_pc = "decode_vertex_buffer"
    /\ fn_out' = DecodeVertexBuffer(fn_args.vertex_data, fn_args.stride,
                                    fn_args.num_vertices)
    /\ fn_pc' = "decoded"
    /\ UNCHANGED <<outsideFn, fn_args>>

(***************************************************************************)
(* Vertex decoding: claims                                                 *)
(***************************************************************************)
\* the leading 24 bytes of the i-th record
LeadingBytes(i) ==
    SubSeq(fn_args.vertex_data, (i - 1) * fn_args.stride + 1, (i - 1) * fn_args.stride + 24)

\* C22: for a stride >= 24 other than 24, 28, 32 and 36, every record is
\* decoded as a stride-24 record with the same leading 24 bytes is: position
\* from offset 0, normal from offset 12, texcoord (u, 1-v) from offset 16.
C22_OtherStridesDecodeAsStride24 ==
    (/\ fn_pc = "parsed"
     /\ fn_args.stride >= 24
     /\ fn_args.stride \notin {24, 28, 32, 36}) =>
        /\ ~fn_out.raised
        /\ \A i \in 1..Len(fn_out.positions) :
              LET as24 == ParseVertexDataByStride(LeadingBytes(i), 24, 1)
              IN  /\ fn_out.positions[i] = as24.positions[1]
                  /\ fn_out.normals[i] = as24.normals[1]
                  /\ fn_out.texcoords[i] = as24.texcoords[1]

\* C23: after decoding a vertex buffer the position list holds
\* min(requested count, floor(buffer length / stride)) entries, and the
\* normal list and the texcoord list are each empty or as long as it.
C23_DecodedListsAreUniform ==
    fn_pc \in {"parsed", "decoded"} =>
        /\ ~fn_out.raised
        /\ Len(fn_out.positions)
              = Min2(fn_args.num_vertices, Len(fn_args.vertex_data) \div fn_args.stride)
        /\ Len(fn_out.normals) \in {0, Len(fn_out.positions)}
        /\ Len(fn_out.texcoords) \in {0, Len(fn_out.positions)}

(***************************************************************************)
(* The two mesh exporters on one draw.  The vertex buffer is given by its  *)
(* stride and the number of whole records it holds (stride >= 12, so every *)
(* record has a position); record i holds the position (i, 2i, -i), the    *)
(* normal bytes (10i, 20, 30) and the texcoord uv(i).  The bone buffer and *)
(* the constant buffers carry a fate: "ok", "no_data" (the readback        *)
(* response omits the key) or "raises" (the readback raises).              *)
(***************************************************************************)
TexcoordsOf(n) == [i \in 1..n |-> <<"uv", i>>]

\* run, line 2472: enable_skinning=(enable_skinning == 1), any nonzero flag
\* taken as on
SkinningEnabledNonzero(flag) == flag /= 0

\* run, line 2472
SkinningEnabled(flag) == flag = 1

\* parse_skeleton_data, lines 475-500: the whole float4 rows of the data
ParseSkeletonData(cbv_data) == cbv_data.rows

\* export_mesh_from_buffers, lines 1909-1929: the table of the first
\* constant buffer of size 768 whose data can be read back
RECURSIVE SkeletonFromCbvs(_)
SkeletonFromCbvs(cbvs) ==
    IF cbvs = <<>> THEN <<>>
    ELSE LET cbv == Head(cbvs)
         IN  IF cbv.size = 768 /\ cbv.fate = "ok"
             THEN ParseSkeletonData(cbv.data)
             ELSE SkeletonFromCbvs(Tail(cbvs))

\* lines 1931-1946: the bone lists, empty when nothing is read
BoneListsFor(bone_vbv, skeleton_data, actual_vertex_count) ==
    IF bone_vbv.present /\ skeleton_data /= <<>> /\ bone_vbv.fate = "ok"
    THEN ParseBoneWeightsData(bone_vbv.data, actual_vertex_count)
    ELSE [bone_indices_list |-> <<>>, bone_weights_list |-> <<>>]

\* lines 1900-1964: the positions and normals after the skinning section
SkinningSection(all_positions, all_normals, in, skinning_on) ==
    LET skeleton_data == IF skinning_on THEN SkeletonFromCbvs(in.cbv_resources)
                         ELSE <<>>
        bones == BoneListsFor(in.bone_vbv, skeleton_data, Len(all_positions))
    IN  IF /\ skinning_on
           /\ skeleton_data /= <<>>
           /\ bones.bone_indices_list /= <<>>
           /\ bones.bone_weights_list /= <<>>
        THEN LET r == ApplySkinning(all_positions, all_normals, bones.bone_indices_list,
                                    bones.bone_weights_list, skeleton_data, TRUE)
             IN  [skinning_applied |-> TRUE, all_positions |-> r.skinned_positions,
                  all_normals |-> r.skinned_normals]
        ELSE [skinning_applied |-> FALSE, all_positions |-> all_positions,
              all_normals |-> all_normals]

NoObj ==
    [written |-> FALSE, skinning_applied |-> FALSE, v |-> <<>>, vt |-> <<>>, vn |-> <<>>,
     indices |-> <<>>, faces |-> <<>>]

\* lines 2031-2035: a normal of the 0-255 range as written to a vn line
VnLine(n) == [scaled_to_unit |-> n]

\* export_mesh_from_buffers, lines 1814-2072, the index and vertex readbacks
\* having succeeded
ObjFromBuffers(in, skinning_on) ==
    LET used_indices == UsedIndices(in.all_indices, in.index_count,
                                    in.start_index_location)
    IN  IF used_indices = <<>> THEN NoObj
        ELSE
        LET vertex_count == VertexCount(used_indices, in.base_vertex_location)
            n            == NumPositions(vertex_count, in.buffer_vertex_count)
        IN  IF n = 0 THEN NoObj
            ELSE
            LET skinned == SkinningSection(
                               PositionsOf(n),
                               IF in.main_stride >= 24 THEN NormalsOf(n) ELSE <<>>,
                               in, skinning_on)
                all_positions == skinned.all_positions
                all_normals   == skinned.all_normals
                all_texcoords == IF in.main_stride >= 24 THEN TexcoordsOf(n) ELSE <<>>
                adjusted_indices == AdjustedIndices(used_indices, in.base_vertex_location)
                valid_vertex_indices ==
                    ValidVertexIndices(UniqueVertexIndices(adjusted_indices),
                                       Len(all_positions))
            IN  IF valid_vertex_indices = <<>> THEN NoObj
                ELSE
                LET indices == RemapIndices(adjusted_indices, IndexMap(valid_vertex_indices))
                    m       == Len(valid_vertex_indices)
                IN  [written |-> TRUE,
                     skinning_applied |-> skinned.skinning_applied,
                     v  |-> [k \in 1..m |-> all_positions[valid_vertex_indices[k] + 1]],
                     vt |-> IF all_texcoords = <<>> THEN <<>>
                            ELSE [k \in 1..m |->
                                    IF valid_vertex_indices[k] < Len(all_texcoords)
                                    THEN all_texcoords[valid_vertex_indices[k] + 1]
                                    ELSE <<"uv", 0>>],
                     vn |-> IF all_normals = <<>> THEN <<>>
                            ELSE [k \in 1..m |->
                                    VnLine(IF valid_vertex_indices[k] < Len(all_normals)
                                           THEN all_normals[valid_vertex_indices[k] + 1]
                                           ELSE <<"default normal">>)],
                     indices |-> indices,
                     faces |-> IF indices /= <<>>
                               THEN FacesFromIndices(indices)
                               ELSE FacesFromPositions(m)]

\* export_mesh_to_obj, line 1348: the position written for an index outside
\* the decoded vertices
ZeroPosition == QTuple(<<0, 0, 0>>)

\* export_mesh_to_obj, lines 1262-1434, the vertex readback having succeeded
ObjFromGeometry(in) ==
    LET n == Max2(0, in.buffer_vertex_count)
        all_positions == PositionsOf(n)
        all_normals   == IF in.main_stride >= 24 THEN NormalsOf(n) ELSE <<>>
        all_texcoords == IF in.main_stride >= 24 THEN TexcoordsOf(n) ELSE <<>>
        used_indices  == UsedIndices(in.all_indices, in.index_count,
                                     in.start_index_location)
    IN  IF all_positions = <<>> THEN NoObj
        ELSE IF used_indices /= <<>>
        THEN LET adjusted_indices == AdjustedIndices(used_indices, in.base_vertex_location)
                 unique_vertex_indices == UniqueVertexIndices(adjusted_indices)
                 index_map == IndexMap(unique_vertex_indices)
                 m         == Len(unique_vertex_indices)
                 inside(k) == 0 <= unique_vertex_indices[k] /\ unique_vertex_indices[k] < n
                 indices   == [k \in 1..Len(adjusted_indices) |->
                                  index_map[adjusted_indices[k]]]
             IN  [written |-> TRUE,
                  skinning_applied |-> FALSE,
                  v  |-> [k \in 1..m |->
                            IF inside(k) THEN all_positions[unique_vertex_indices[k] + 1]
                            ELSE ZeroPosition],
                  vt |-> IF all_texcoords = <<>> THEN <<>>
                         ELSE [k \in 1..m |->
                                 IF inside(k) THEN all_texcoords[unique_vertex_indices[k] + 1]
                                 ELSE <<"uv", 0>>],
                  vn |-> IF all_normals = <<>> THEN <<>>
                         ELSE [k \in 1..m |->
                                 IF inside(k) THEN all_normals[unique_vertex_indices[k] + 1]
                                 ELSE <<"up normal">>],
                  indices |-> indices,
                  faces |-> FacesFromIndices(indices)]
        ELSE [written |-> TRUE,
              skinning_applied |-> FALSE,
              v  |-> all_positions,
              vt |-> all_texcoords,
              vn |-> all_normals,
              indices |-> <<>>,
              faces |-> FacesFromPositions(Len(all_positions))]

(***************************************************************************)
(* The two mesh exporters: one call of each on the same draw               *)
(***************************************************************************)
NoBoneVbv == [present |-> FALSE, fate |-> "ok", data |-> <<>>]

BoneVbv(fate, data) == [present |-> TRUE, fate |-> fate, data |-> data]

\* three bone records, one, none, a buffer that cannot be read, no buffer
BoneVbvs ==
    {NoBoneVbv,
     BoneVbv("no_data", <<>>),
     BoneVbv("ok", <<>>),
     BoneVbv("ok", BoneRecord(<<1, 1, 1, 0>>, <<0, 1, 2, 3>>)),
     BoneVbv("ok", BoneRecord(<<1, 1, 1, 0>>, <<0, 1, 2, 3>>)
                   \o BoneRecord(<<255, 0, 0, 0>>, <<0, 0, 0, 0>>)
                   \o BoneRecord(<<0, 0, 0, 0>>, <<1, 0, 255, 7>>))}

\* a table of 16 bones: a quarter turn, a scaling, 14 identities
SkeletonOf16 == TurnAndScaleTable \o IdentityTable(14)

Cbv(size, fate, rows) == [size |-> size, fate |-> fate, data |-> [rows |-> rows]]

CbvLists ==
    {<<>>,
     <<Cbv(768, "ok", SkeletonOf16)>>,
     <<Cbv(512, "ok", SkeletonOf16)>>,
     <<Cbv(768, "no_data", <<>>), Cbv(64, "ok", <<>>), Cbv(768, "ok", SkeletonOf16)>>,
     <<Cbv(768, "raises", <<>>)>>,
     <<Cbv(768, "ok", <<>>), Cbv(768, "ok", SkeletonOf16)>>}

ObjInput(I, count, start, base, stride, nbuf, flag, bone, cbvs) ==
    [all_indices |-> I, index_count |-> count, start_index_location |-> start,
     base_vertex_location |-> base, main_stride |-> stride, buffer_vertex_count |-> nbuf,
     enable_skinning |-> flag, bone_vbv |-> bone, cbv_resources |-> cbvs]

\* draws of every index window without bone data, and a three-vertex draw
\* with every combination of flag, bone buffer and constant buffers
ObjInit ==
    /\ fn_pc = "export_mesh_from_buffers"
    /\ \/ \E I \in SeqsUpTo(0..MaxIndexValue, 3) \cup {<<2, 1, 0, 1>>, <<0, 1, 2, 0>>},
             count \in 0..3, start \in StartValues,
             base \in BaseValues, stride \in {12, 24},
             nbuf \in 0..(MaxIndexValue + 2) :
             fn_args = ObjInput(I, count, start, base, stride, nbuf, 0, NoBoneVbv, <<>>)
       \/ \E I \in {<<0, 1, 2>>, <<2, 1, 0, 1>>}, stride \in {12, 24}, flag \in {0, 1, 2},
             bone \in BoneVbvs, cbvs \in CbvLists :
             fn_args = ObjInput(I, 0, 0, 0, stride, 3, flag, bone, cbvs)
    /\ fn_out = <<>>

\* export_mesh_from_buffers as run calls it (line 2468)
CallExportMeshFromBuffers ==
    /\ fn_pc = "export_mesh_from_buffers"
    /\ fn_out' = [buffers |-> ObjFromBuffers(fn_args,
                                             SkinningEnabled(fn_args.enable_skinning))]
    /\ fn_pc' = "export_mesh_to_obj"
    /\ UNCHANGED <<outsideFn, fn_args>>

\* export_mesh_to_obj on the same draw
CallExportMeshToObj ==
    /\ fn_pc = "export_mesh_to_obj"
    /\ fn_out' = [buffers |-> fn_out.buffers, geometry |-> ObjFromGeometry(fn_args)]
    /\ fn_pc' = "exported"
    /\ UNCHANGED <<outsideFn, fn_args>>

(***************************************************************************)
(* The two mesh exporters: claims                                          *)
(***************************************************************************)
Exported == fn_pc = "exported"

\* the faces of an OBJ name its v lines, and there are floor(k/3) of them
FacesWellFormed(obj) ==
    /\ \A f \in 1..Len(obj.faces) :
          /\ Len(obj.faces[f]) = 3
          /\ \A c \in 1..3 : 1 <= obj.faces[f][c] /\ obj.faces[f][c] <= Len(obj.v)
    /\ Len(obj.faces) = (IF obj.indices /= <<>> THEN Len(obj.indices) \div 3
                         ELSE Len(obj.v) \div 3)

\* the real indices of the draw's window
RealIndices ==
    AdjustedIndices(UsedIndices(fn_args.all_indices, fn_args.index_count,
                                fn_args.start_index_location),
                    fn_args.base_vertex_location)

\* a real index of the window names no record of the vertex buffer
SomeIndexOutOfRange ==
    \E k \in 1..Len(RealIndices) :
        RealIndices[k] < 0 \/ RealIndices[k] >= fn_args.buffer_vertex_count

\* C27: in an OBJ written by either mesh path every face has three 1-based
\* indices between 1 and the number of v lines, and there are floor(k/3)
\* faces for k emitted indices (k emitted vertices when there are no
\* indices).
C27_FacesNameWrittenVertices ==
    Exported =>
        /\ fn_out.buffers.written => FacesWellFormed(fn_out.buffers)
        /\ fn_out.geometry.written => FacesWellFormed(fn_out.geometry)

\* both paths wrote a face for a window with an index out of range
C27_Witness ==
    /\ Exported
    /\ SomeIndexOutOfRange
    /\ fn_out.buffers.written /\ Len(fn_out.buffers.faces) >= 1
    /\ fn_out.geometry.written /\ Len(fn_out.geometry.faces) >= 1

\* C30: for the same index data, draw window and vertex data the geometry
\* path emits the vertices and faces the IBV/VBV path emits: an index whose
\* real vertex index is out of range gets no v line and no face.
C30_GeometryPathDropsLikeBuffersPath ==
    (/\ Exported
     /\ fn_out.buffers.written
     /\ ~fn_out.buffers.skinning_applied
     /\ fn_out.geometry.written) =>
        /\ fn_out.geometry.v = fn_out.buffers.v
        /\ fn_out.geometry.faces = fn_out.buffers.faces

\* the positions and normals as decoded from the vertex buffer
DecodedPositions == Range(PositionsOf(fn_args.buffer_vertex_count))

DecodedNormals == Range(NormalsOf(fn_args.buffer_vertex_count))

\* a constant buffer of 768 bytes was read back
SkeletonReadBack ==
    \E k \in 1..Len(fn_args.cbv_resources) :
        /\ fn_args.cbv_resources[k].size = 768
        /\ fn_args.cbv_resources[k].fate = "ok"

\* C26: the IBV/VBV path reports skinning only if the flag is 1, the data
\* of a stride-8 vertex buffer was read back and a constant buffer of 768
\* bytes was read back as the skeleton table, and then a vertex has been
\* transformed; otherwise, and always in the geometry path, the emitted
\* positions and normals are the decoded ones.
C26_SkinningOnlyWhenEnabledAndFed ==
    Exported =>
        LET b == fn_out.buffers
            g == fn_out.geometry
        IN  /\ b.skinning_applied =>
                  /\ b.written
                  /\ fn_args.enable_skinning = 1
                  /\ fn_args.bone_vbv.present /\ fn_args.bone_vbv.fate = "ok"
                  /\ SkeletonReadBack
                  /\ \E k \in 1..Len(b.v) : b.v[k] \notin DecodedPositions
            /\ ~b.skinning_applied =>
                  /\ \A k \in 1..Len(b.v) : b.v[k] \in DecodedPositions
                  /\ \A k \in 1..Len(b.vn) : b.vn[k] \in {VnLine(n) : n \in DecodedNormals}
            /\ ~g.skinning_applied
            /\ \A k \in 1..Len(g.v) : g.v[k] \in DecodedPositions \cup {ZeroPosition}
            /\ \A k \in 1..Len(g.vn) : g.vn[k] \in DecodedNormals \cup {<<"up normal">>}

\* skinning applied with the table taken from the third constant buffer, and
\* a vertex beyond the bone records left as decoded
C26_Witness ==
    /\ Exported
    /\ fn_out.buffers.skinning_applied
    /\ Len(fn_args.cbv_resources) = 3
    /\ Len(fn_args.bone_vbv.data) = 8
    /\ fn_out.buffers.v[1] \notin DecodedPositions
    /\ fn_out.buffers.v[3] \in DecodedPositions

(***************************************************************************)
(* Specifications                                                          *)
(***************************************************************************)
ScanIdle ==
    /\ dxbc_lines = <<>>
    /\ in_bindings_section = FALSE
    /\ header_found = FALSE
    /\ textures = <<>>

InitScan == ScanInit /\ all_calls = <<>> /\ TraceIdle /\ MeshIdle /\ RunIdle /\ DdsIdle /\ SkinIdle /\ FnIdle

NextScan == ScanNextLine /\ UNCHANGED <<all_calls, traceVars, meshVars, runVars, ddsVars, skinVars, fnVars>>

SpecScan == InitScan /\ [][NextScan]_vars

InitTrace == TraceInit /\ ScanIdle /\ MeshIdle /\ RunIdle /\ DdsIdle /\ SkinIdle /\ FnIdle

NextTrace == FindCalls /\ UNCHANGED <<scanVars, meshVars, runVars, ddsVars, skinVars, fnVars>>

SpecTrace == InitTrace /\ [][NextTrace]_vars

InitMesh == MeshInit /\ ScanIdle /\ all_calls = <<>> /\ TraceIdle /\ RunIdle /\ DdsIdle /\ SkinIdle /\ FnIdle

NextMesh == ExportMesh /\ UNCHANGED <<scanVars, all_calls, traceVars, runVars, ddsVars, skinVars, fnVars>>

SpecMesh == InitMesh /\ [][NextMesh]_vars

InitRun == RunInit /\ ScanIdle /\ TraceIdle /\ MeshIdle /\ DdsIdle /\ SkinIdle /\ FnIdle

NextRun ==
    \/ RunSelect
    \/ MakeRootDir
    \/ DescribeEvent
    \/ MakeEventDirs
    \/ GetBindings
    \/ ResolveShaderNames
    \/ ClassifyInputs
    \/ ExportSrvTexture
    \/ ExportOtherInput
    \/ ExportOutput
    \/ ExportMeshStep
    \/ ExportShadersStep
    \/ WriteEventInfo
    \/ AppendEvent
    \/ ReturnResults

SpecRun == InitRun /\ [][NextRun]_vars

InitEvent == EventInit /\ ScanIdle /\ TraceIdle /\ MeshIdle /\ DdsIdle /\ SkinIdle /\ FnIdle

SpecEvent == InitEvent /\ [][NextRun]_vars

InitDds == DdsInit /\ ScanIdle /\ all_calls = <<>> /\ TraceIdle /\ MeshIdle /\ RunIdle /\ SkinIdle /\ FnIdle

NextDds ==
    \/ CallGetDxgiFormat
    \/ CallSaveAsDds
    \/ CallFlipImageVertical

SpecDds == InitDds /\ [][NextDds]_vars

InitSkin ==
    SkinInit /\ ScanIdle /\ all_calls = <<>> /\ TraceIdle /\ MeshIdle /\ RunIdle /\ DdsIdle
        /\ FnIdle

NextSkin ==
    \/ CallParseBoneWeightsData
    \/ CallApplySkinning
    \/ CallSkinPosition

SpecSkin == InitSkin /\ [][NextSkin]_vars

IdleButFn ==
    /\ ScanIdle /\ all_calls = <<>> /\ TraceIdle /\ MeshIdle /\ RunIdle /\ DdsIdle /\ SkinIdle

InitSlot == SlotInit /\ IdleButFn

NextSlot ==
    \/ CallBuildResourceIdToSlotMap
    \/ CallBuildResourceIdToDxbcNameMap

SpecSlot == InitSlot /\ [][NextSlot]_vars

InitFormat == FormatInit /\ IdleButFn

NextFormat ==
    \/ CallGetBytesPerPixel
    \/ CallGetBcBlockSize

SpecFormat == InitFormat /\ [][NextFormat]_vars

InitVertex == VertexInit /\ IdleButFn

NextVertex ==
    \/ CallParseVertexDataByStride
    \/ CallDecodeVertexBuffer

SpecVertex == InitVertex /\ [][NextVertex]_vars

InitObj == ObjInit /\ IdleButFn

NextObj ==
    \/ CallExportMeshFromBuffers
    \/ CallExportMeshToObj

SpecObj == InitObj /\ [][NextObj]_vars

====
